---- MODULE Spec2Model ----
(***************************************************************************)
(* Room-booking gateway: SingleFlight, the per-room window cache           *)
(* (CacheForBookings), the recently created/updated/canceled overlay       *)
(* (RecentBookings) and the read path of ExchangeBookingRepository.        *)
(*                                                                         *)
(* The program runs on one asyncio event loop.  A coroutine runs without   *)
(* interruption between two suspension points, and an uncontended          *)
(* asyncio.Lock is acquired without suspending; every lock of the program  *)
(* is released before the next suspension point, so each critical section  *)
(* is one atomic step.  An action below is one such run-to-suspension.     *)
(***************************************************************************)
EXTENDS Integers, Sequences, FiniteSets, TLC

VARIABLES
    \* ---- SingleFlight (single_flight.py) and the tasks it registers ----
    sfPairs,     \* SingleFlight._pairs: sequence of <<key, task>>
    tstatus,     \* per task: "none" | "running" | "cancelling" | "ok" | "failed" | "cancelled"
    tkey,        \* per task: the key it was created for
    tval,        \* per task: its result, once "ok"
    pc,          \* per caller of run: "idle" | "awaiting" | "returned" | "raised" | "cancelled"
    ckey,        \* per caller: key argument
    cdedup,      \* per caller: use_dedup argument
    ctask,       \* per caller: the local variable task (0: none)
    cval,        \* per caller: the value run returned
    mustCancel,  \* per caller: cancellation requested on the caller
    \* history of the run calls (what a test would record)
    sawTask,     \* per caller: the task registered under the key when run started (0: none)
    sawDone,     \* per caller: whether that task was done() at that moment
    created,     \* per caller: whether run invoked create_task_func
    \* ---- time ----
    clock,       \* time.monotonic()
    \* ---- CacheForBookings (caching.py) ----
    cache,       \* CacheForBookings.cache: room_id -> sequence of CacheSlot
                 \* (a room without slots is held as <<>>: the dict has no key)
    cres,        \* what the last cache operation was given and returned
    lastPut,     \* per room: the arguments of the latest update of the room
    nputs,       \* number of cache updates so far
    probe,       \* a fixed <<room, window>> whose reads are followed
    lastHit,     \* timestamp of the slot the latest hit on probe returned (-1: none)
    firstHit,    \* timestamp of the slot the first hit on probe returned (-1: none)
    \* ---- one source's fetch path (exchange_repository.py, _fetch_bookings_from_*) ----
    source,      \* "ac": account calendar (calendar_view), "bi": busy info (free_busy)
    crooms,      \* per caller: the rooms argument (ids)
    cwin,        \* per caller: <<start, end>>
    cout,        \* per caller: the room -> bookings mapping the fetch returned
    chit,        \* per caller: the fetch was served by the cache (no cache miss)
    written,     \* per task: some caller wrote the task's bookings to the cache
    busyAtStart, \* per caller: the callers whose fetch was in progress when it started
    \* ---- RecentBookings (recently.py) and the room read over it ----
    recCanceled, \* RecentBookings._canceled, in insertion order: [id, ts, b]
    recCreated,  \* RecentBookings._created
    recUpdated,  \* RecentBookings._updated
    rd,          \* the room read: its arguments, t_start and what it returned
    createdAt,   \* per id: when create_booking returned it (-1: not yet)
    cancelAsked, \* per id: a cancel of the id has been carried out
    \* ---- the service above: merge, HTTP routes, create and update ----
    mg,          \* a merge of two booking lists: its arguments and its result
    rq,          \* the mutating HTTP request being handled and how it ended
    gwLog,       \* the mutating gateway calls issued so far
    op,          \* the create_booking / update_booking call in progress
    item,        \* the calendar item of that call as the backend holds it
    \* ---- CacheForBookings under its lock ----
    pm,          \* the update_cache_from_mapping call holding the lock
    ed,          \* the last add_booking_to_cache / remove_booking_from_cache
    \* ---- RecentBookings queried on its own ----
    rres,        \* what the last is_* / get_* call was asked and returned
    lastMark,    \* per kind and id: the time of the latest mark_* (-1: never)
    \* ---- the booking rules (rules/service.py) ----
    pol,         \* a can_book call past its validation: its inputs and its answer
    \* ---- the single-user read (fetch_user_bookings) ----
    ur           \* the call: the rooms it covers and what it returned

sfVars == <<sfPairs, tstatus, tkey, tval, pc, ckey, cdedup, ctask, cval,
            mustCancel, sawTask, sawDone, created>>

cacheVars == <<cache, cres, lastPut, nputs>>

monoVars == <<probe, lastHit, firstHit>>

readVars == <<source, crooms, cwin, cout, chit, written, busyAtStart>>

overlayVars == <<recCanceled, recCreated, recUpdated, rd, createdAt, cancelAsked>>

editVars == <<pm, ed>>

recentVars == <<rres, lastMark>>

serviceVars == <<mg, rq, gwLog, op, item, editVars, recentVars, pol, ur>>

vars == <<sfVars, clock, cacheVars, monoVars, readVars, overlayVars, serviceVars>>

-----------------------------------------------------------------------------
(* Bounds *)

NCallers == 2
\* How many callers may be cancelled in one behaviour.
MaxCancels == 1

Callers == 1..NCallers
\* A task is named after the caller whose create_task_func call made it.
Tasks == Callers
Keys == {"a", "b"}
Vals == {"v1", "v2"}

DoneStatus == {"ok", "failed", "cancelled"}

\* asyncio.Task.done()
TaskDone(t) == tstatus[t] \in DoneStatus

-----------------------------------------------------------------------------
(* SingleFlight *)

RECURSIVE FindFrom(_, _, _)
FindFrom(pairs, key, i) ==
    IF i > Len(pairs) THEN 0
    ELSE IF pairs[i][1] = key THEN i
    ELSE FindFrom(pairs, key, i + 1)

\* SingleFlight._find: index of the first pair whose key equals key (0: none;
\* the code's -1).
Find(pairs, key) == FindFrom(pairs, key, 1)

RemoveAt(seq, i) ==
    [j \in 1..(Len(seq) - 1) |-> IF j < i THEN seq[j] ELSE seq[j + 1]]

\* Mutant: the use_dedup flag is taken to be always false.
MustCreate_NoDedup(use_dedup, existing) == TRUE

\* Mutant: a registered task is shared even when it is already done.
MustCreate_NoDoneCheck(use_dedup, existing) ==
    \/ ~use_dedup
    \/ existing = 0

\* The decision of run under the lock: whether create_task_func is invoked.
MustCreate(use_dedup, existing) ==
    \/ ~use_dedup
    \/ existing = 0
    \/ TaskDone(existing)

\* Mutant: a new task is appended even when the key has an entry.
RunRegister_Appends(pairs, key, use_dedup, fresh) ==
    LET idx == Find(pairs, key)
        existing == IF idx > 0 THEN pairs[idx][2] ELSE 0
    IN  IF MustCreate(use_dedup, existing)
        THEN [pairs |-> Append(pairs, <<key, fresh>>),
              task |-> fresh, made |-> TRUE, existing |-> existing]
        ELSE [pairs |-> pairs, task |-> existing, made |-> FALSE,
              existing |-> existing]

\* The first critical section of run (lines 37-47): the registry and the task
\* the caller goes on to await.  fresh is the task create_task_func returns.
RunRegister(pairs, key, use_dedup, fresh) ==
    LET idx == Find(pairs, key)
        existing == IF idx > 0 THEN pairs[idx][2] ELSE 0
    IN  IF MustCreate(use_dedup, existing)
        THEN [pairs |-> IF idx > 0 THEN [pairs EXCEPT ![idx] = <<key, fresh>>]
                        ELSE Append(pairs, <<key, fresh>>),
              task |-> fresh, made |-> TRUE, existing |-> existing]
        ELSE [pairs |-> pairs, task |-> existing, made |-> FALSE,
              existing |-> existing]

\* Mutant: the entry of the key is removed whatever task it holds.
RunCleanup_Unguarded(pairs, key, task) ==
    LET idx == Find(pairs, key)
    IN  IF idx > 0 THEN RemoveAt(pairs, idx) ELSE pairs

\* The finally block of run (lines 50-54).
RunCleanup(pairs, key, task) ==
    LET idx == Find(pairs, key)
    IN  IF idx > 0 /\ pairs[idx][2] = task THEN RemoveAt(pairs, idx) ELSE pairs

\* Mutant: a failed task is taken for one that returned.
AwaitOutcome_SwallowsFailure(c) ==
    IF mustCancel[c] \/ tstatus[ctask[c]] = "cancelled" THEN "cancelled"
    ELSE "returned"

\* What `await task` gives a caller once the task is done: a cancellation
\* requested on the caller while it was suspended wins over the task's outcome.
AwaitOutcome(c) ==
    IF mustCancel[c] \/ tstatus[ctask[c]] = "cancelled" THEN "cancelled"
    ELSE IF tstatus[ctask[c]] = "failed" THEN "raised"
    ELSE "returned"

-----------------------------------------------------------------------------
(* CacheForBookings: data and the two _impl functions *)

\* CacheForBookings.ttl_sec
TtlSec == 2
\* CacheForBookings.max_slots_per_room
MaxSlotsPerRoom == 2

\* Latest value of the monotonic clock.
MaxClock == 2
\* How many cache updates one behaviour makes.
MaxPuts == 3

Rooms == {"r1", "r2"}
\* The windows asked for and cached: a day and its two halves, as
\* <<start, end>>.
Windows == {<<0, 2>>, <<0, 1>>, <<1, 2>>}

\* Booking (schemas.py): outlook_booking_id is 0 for None.
Bk(room, s, e, oid) == [room_id |-> room, start |-> s, end |-> e, oid |-> oid]

\* The booking list a fetch made at time now hands to the cache for a room and
\* a window: one booking, whose id tells the fetches of different times apart.
Fetched(room, w, now) == <<Bk(room, w[1], w[2], now + 1)>>

NoSlot == [bookings |-> <<>>, start |-> 0, end |-> 0, timestamp |-> -1]

\* The condition both _prune_expired and _get_cached_entry_impl keep a slot by.
\* Mutant: a slot is kept through now = timestamp + ttl.
NotOutdated_Inclusive(slot, now) == slot.timestamp + TtlSec >= now

NotOutdated(slot, now) == slot.timestamp + TtlSec > now

\* Mutant: a slot that overlaps the request serves it.
Covers_Overlap(slot, start, end) == slot.start < end /\ start < slot.end

\* The containment test of _get_cached_entry_impl (line 92).
Covers(slot, start, end) == slot.start <= start /\ slot.end >= end

Live(slots, now) == SelectSeq(slots, LAMBDA sl : NotOutdated(sl, now))

\* CacheForBookings._prune_expired
PruneExpired(slots, now) == Live(slots, now)

\* list.sort(key=timestamp): stable insertion sort.
RECURSIVE InsertByTimestamp(_, _)
InsertByTimestamp(sorted, sl) ==
    IF sorted = <<>> THEN <<sl>>
    ELSE IF sorted[Len(sorted)].timestamp <= sl.timestamp THEN Append(sorted, sl)
    ELSE Append(InsertByTimestamp(SubSeq(sorted, 1, Len(sorted) - 1), sl),
                sorted[Len(sorted)])

RECURSIVE SortByTimestamp(_)
SortByTimestamp(slots) ==
    IF slots = <<>> THEN <<>>
    ELSE InsertByTimestamp(SortByTimestamp(SubSeq(slots, 1, Len(slots) - 1)),
                           slots[Len(slots)])

\* Mutant: the newest slots are dropped.
EvictOldest_DropNewest(slots) ==
    IF Len(slots) <= MaxSlotsPerRoom THEN slots
    ELSE SubSeq(SortByTimestamp(slots), 1, MaxSlotsPerRoom)

\* CacheForBookings._evict_oldest
EvictOldest(slots) ==
    IF Len(slots) <= MaxSlotsPerRoom THEN slots
    ELSE SubSeq(SortByTimestamp(slots), Len(slots) - MaxSlotsPerRoom + 1, Len(slots))

\* CacheForBookings._update_cache_impl, on the cache map c.
UpdateCacheImpl(c, room, bookings, start, end, now) ==
    LET slot == [bookings |-> bookings, start |-> start, end |-> end,
                 timestamp |-> now]
    IN  [c EXCEPT ![room] = EvictOldest(PruneExpired(Append(c[room], slot), now))]

RECURSIVE FirstCovering(_, _, _, _)
FirstCovering(slots, start, end, i) ==
    IF i > Len(slots) THEN 0
    ELSE IF Covers(slots[i], start, end) THEN i
    ELSE FirstCovering(slots, start, end, i + 1)

\* CacheForBookings._get_cached_entry_impl: the returned slot (hit) and the
\* cache map it leaves.
GetCachedEntryImpl(c, room, start, end, now) ==
    LET slots == c[room]
        notOutdated == Live(slots, now)
        i == FirstCovering(notOutdated, start, end, 1)
    IN  IF slots = <<>> THEN [hit |-> FALSE, slot |-> NoSlot, cache |-> c]
        ELSE IF notOutdated = <<>>
        THEN [hit |-> FALSE, slot |-> NoSlot, cache |-> [c EXCEPT ![room] = <<>>]]
        ELSE IF i > 0 THEN [hit |-> TRUE, slot |-> notOutdated[i], cache |-> c]
        ELSE [hit |-> FALSE, slot |-> NoSlot, cache |-> c]

\* update_cache_from_mapping: _update_cache_impl for each room of the mapping
\* (a function from a set of rooms to booking lists), under one lock.
RECURSIVE UpdateFromMapping(_, _, _, _, _, _)
UpdateFromMapping(c, todo, mapping, start, end, now) ==
    IF todo = {} THEN c
    ELSE LET room == CHOOSE r \in todo : TRUE
         IN  UpdateFromMapping(
                 UpdateCacheImpl(c, room, mapping[room], start, end, now),
                 todo \ {room}, mapping, start, end, now)

\* get_cached_bookings: _get_cached_entry_impl for each room, under one lock.
RECURSIVE GetCachedBookings(_, _, _, _, _, _, _)
GetCachedBookings(c, todo, start, end, now, hits, misses) ==
    IF todo = {} THEN [cache |-> c, hits |-> hits, misses |-> misses]
    ELSE LET room == CHOOSE r \in todo : TRUE
             g == GetCachedEntryImpl(c, room, start, end, now)
         IN  GetCachedBookings(
                 g.cache, todo \ {room}, start, end, now,
                 IF g.hit THEN hits \cup {<<room, g.slot>>} ELSE hits,
                 IF g.hit THEN misses ELSE misses \cup {room})

NoRes == [op |-> "none", rooms |-> {}, start |-> 0, end |-> 0, now |-> 0,
          hit |-> FALSE, slot |-> NoSlot, hits |-> {}, misses |-> {}]
NoPut == [start |-> 0, end |-> 0, now |-> -1, bookings |-> <<>>]

CacheInitVars ==
    /\ cache = [r \in Rooms |-> <<>>]
    /\ cres = NoRes
    /\ lastPut = [r \in Rooms |-> NoPut]
    /\ nputs = 0

MonoIdle ==
    /\ probe = <<"r1", <<0, 1>>>>
    /\ lastHit = -1
    /\ firstHit = -1

\* No fetch has been started.
ReadInitVars ==
    /\ crooms = [c \in Callers |-> {}]
    /\ cwin = [c \in Callers |-> <<0, 0>>]
    /\ cout = [c \in Callers |-> <<>>]
    /\ chit = [c \in Callers |-> FALSE]
    /\ written = [t \in Tasks |-> FALSE]
    /\ busyAtStart = [c \in Callers |-> {}]

ReadIdle == source = "none" /\ ReadInitVars

\* Mutant: a clock that can step back (wall-clock time instead of monotonic).
Now_StepsBack == IF clock = MaxClock THEN 0 ELSE clock

\* now = time.monotonic(), as every cache method reads it.
Now == clock

-----------------------------------------------------------------------------
(* The fetch of one source: keys, gateway results and their conversion *)

\* The room sets and windows the reads ask for.
RoomSets == {{"r1"}, {"r1", "r2"}}
ReadWindows == {<<0, 1>>}

\* What a gateway call returned, as the items it lists: the room whose
\* resource mailbox attends the item ("none": no room of the registry), that
\* attendee's response, the item id and its times.
GatewayItems(v) ==
    IF v = "v1"
    THEN <<[room |-> "r1", response |-> "Accept", oid |-> 1, start |-> 0, end |-> 1]>>
    ELSE <<[room |-> "r1", response |-> "Decline", oid |-> 2, start |-> 0, end |-> 1],
           [room |-> "r2", response |-> "Accept", oid |-> 3, start |-> 1, end |-> 2],
           [room |-> "none", response |-> "Accept", oid |-> 4, start |-> 0, end |-> 1]>>

\* Mutant: the read path asks SingleFlight not to deduplicate.
ReadUseDedup_Off == FALSE

\* use_dedup as _fetch_bookings_both_from_account_calendar_and_busy_info
\* passes it to both fetches (lines 353 and 360).
ReadUseDedup == TRUE

\* The SingleFlight key: AccountCalendarViewArgs(start, end) for the account
\* calendar, AccountGetFreeBusyInfoArgs(rooms_ids, accounts, start, end) for
\* busy info (accounts is a function of rooms_ids).
FetchKey(src, rooms, w) == IF src = "ac" THEN <<w>> ELSE <<rooms, w>>

RECURSIVE ItemsToBookings(_, _, _, _)
\* The bookings of room made from the items, in the items' order: for the
\* account calendar an item is skipped when its room attendee declined and
\* the booking keeps the item id; a busy-info event has no id and no response.
ItemsToBookings(src, items, room, i) ==
    IF i > Len(items) THEN <<>>
    ELSE LET it == items[i]
             rest == ItemsToBookings(src, items, room, i + 1)
         IN  IF it.room # room THEN rest
             ELSE IF src = "ac"
             THEN IF it.response = "Decline" THEN rest
                  ELSE <<Bk(room, it.start, it.end, it.oid)>> \o rest
             ELSE <<Bk(room, it.start, it.end, 0)>> \o rest

\* "Convert EWS CalendarItems / CalendarEvents to ours Bookings": a list for
\* every requested room, items of other rooms dropped.
Convert(src, v, rooms) ==
    [r \in rooms |-> ItemsToBookings(src, GatewayItems(v), r, 1)]

\* room_x_cached_bookings of a full cache hit.
HitsToMapping(rooms, hits) ==
    [r \in rooms |-> (CHOOSE h \in hits : h[1] = r)[2].bookings]

-----------------------------------------------------------------------------
(* RecentBookings and the overlay of the room read *)

\* RecentBookings.ttl_sec (settings.recently_canceled_booking_ttl_sec)
RecentTtlSec == 2
\* settings.ttl_bookings_from_account_calendar, as the overlay compares with it
TtlCalendarView == 1

\* Item ids the service creates bookings under.
Ids == {1, 2}
\* The room a booking of the id is made in.
RoomOf(id) == IF id = 1 THEN "r1" ELSE "r2"
\* The booking create_booking returns, and the one update_booking returns
\* after moving it.
CreatedBooking(id) == Bk(RoomOf(id), 0, 1, id)
UpdatedBooking(id) == Bk(RoomOf(id), 1, 2, id)
NoBooking == Bk("none", 0, 0, 0)

\* The keys of a table (a dict in insertion order).
IdsOf(tbl) == {tbl[i].id : i \in 1..Len(tbl)}
EntryOf(tbl, id) == tbl[CHOOSE i \in 1..Len(tbl) : tbl[i].id = id]
Without(tbl, ids) == SelectSeq(tbl, LAMBDA e : e.id \notin ids)

\* Mutant: an entry is kept while now - ts <= ttl_sec.
Prune_Inclusive(tbl, now) == SelectSeq(tbl, LAMBDA e : now - e.ts <= RecentTtlSec)

\* RecentBookings._prune, for one table
Prune(tbl, now) == SelectSeq(tbl, LAMBDA e : now - e.ts < RecentTtlSec)

\* dict[item_id] = (now, booking): a present key keeps its position.
Put(tbl, id, ts, b) ==
    IF id \in IdsOf(tbl)
    THEN [i \in 1..Len(tbl) |->
             IF tbl[i].id = id THEN [id |-> id, ts |-> ts, b |-> b] ELSE tbl[i]]
    ELSE Append(tbl, [id |-> id, ts |-> ts, b |-> b])

\* Mutant: marking prunes the table and stores nothing.
Mark_PruneOnly(tbl, id, b, now) == Prune(tbl, now)

\* mark_canceled / mark_created / mark_updated on its own table
Mark(tbl, id, b, now) == Put(Prune(tbl, now), id, now, b)

\* is_canceled / is_created / is_updated
IsMarked(tbl, id, now) ==
    /\ id \in IdsOf(Prune(tbl, now))
    /\ now - EntryOf(Prune(tbl, now), id).ts < RecentTtlSec

\* The registry key of the merge.
KeyOf(b) == <<b.room_id, b.start, b.end>>
KeysIn(bs) == {KeyOf(bs[i]) : i \in 1..Len(bs)}
ForKey(bs, k) == SelectSeq(bs, LAMBDA b : KeyOf(b) = k)

\* Mutant: the merge keeps every entry of both sides.
MergeKey_KeepAll(ac, bi, k) == ForKey(ac, k) \o ForKey(bi, k)

\* What the merge keeps for one key (lines 380-395).
MergeKey(ac, bi, k) ==
    LET a == ForKey(ac, k)
        f == ForKey(bi, k)
    IN  IF Len(a) + Len(f) = 1 THEN a \o f
        ELSE IF a # <<>> THEN <<a[1]>>
        ELSE f

RECURSIVE MergeSources(_, _, _, _)
\* The merge loop over the union of the keys, taken in the given order (the
\* code iterates a set: any order).
MergeSources(ac, bi, order, i) ==
    IF i > Len(order) THEN <<>>
    ELSE MergeKey(ac, bi, order[i]) \o MergeSources(ac, bi, order, i + 1)

Orders(S) ==
    {p \in [1..Cardinality(S) -> S] :
        \A i, j \in 1..Cardinality(S) : i # j => p[i] # p[j]}

RECURSIVE Remaining(_, _, _)
\* The recently created bookings left over whose room was asked for
\* (lines 440-444).
Remaining(cr, roomIds, i) ==
    IF i > Len(cr) THEN <<>>
    ELSE (IF cr[i].b.room_id \in roomIds THEN <<cr[i].b>> ELSE <<>>)
             \o Remaining(cr, roomIds, i + 1)

\* Mutant: the updated entry always replaces the fetched booking.
UseUpdated_Always(tStart, updated_ts) == TRUE

\* Line 423: (t_start - settings.ttl_bookings_from_account_calendar) < updated_ts
UseUpdated(tStart, updated_ts) == tStart - TtlCalendarView < updated_ts

RECURSIVE OverlayLoop(_, _, _, _, _, _, _)
\* The loop over the merged bookings (lines 410-438) and the appending of the
\* remaining created ones: cr and up are the local copies of the created and
\* updated tables, which the loop pops from.
OverlayLoop(bs, i, cr, up, canceledIds, tStart, roomIds) ==
    IF i > Len(bs) THEN Remaining(cr, roomIds, 1)
    ELSE LET b == bs[i]
             oid == b.oid
         IN  IF oid = 0
             THEN <<b>> \o OverlayLoop(bs, i + 1, cr, up, canceledIds, tStart, roomIds)
             ELSE IF oid \in canceledIds
             THEN OverlayLoop(bs, i + 1, cr, up, canceledIds, tStart, roomIds)
             ELSE IF oid \in IdsOf(up)
             THEN <<IF UseUpdated(tStart, EntryOf(up, oid).ts)
                    THEN EntryOf(up, oid).b ELSE b>>
                  \o OverlayLoop(bs, i + 1, cr, Without(up, {oid}), canceledIds,
                                 tStart, roomIds)
             ELSE IF oid \in IdsOf(cr)
             THEN <<b>> \o OverlayLoop(bs, i + 1, Without(cr, {oid}), up,
                                       canceledIds, tStart, roomIds)
             ELSE <<b>> \o OverlayLoop(bs, i + 1, cr, up, canceledIds, tStart, roomIds)

\* Mutant: the canceled ids are not taken out of the created and updated
\* tables.
ApplyOverlay_KeepCanceled(bs, createdTbl, updatedTbl, canceledTbl, tStart, roomIds) ==
    OverlayLoop(bs, 1, Without(createdTbl, IdsOf(updatedTbl)), updatedTbl,
                IdsOf(canceledTbl), tStart, roomIds)

\* "Use cache for recently created, updated and canceled bookings"
\* (lines 397-446), on the tables as get_created, get_canceled and
\* get_updated_with_ts returned them.
ApplyOverlay(bs, createdTbl, updatedTbl, canceledTbl, tStart, roomIds) ==
    LET canceledIds == IdsOf(canceledTbl)
        up == Without(updatedTbl, canceledIds)
        cr == Without(Without(createdTbl, canceledIds), IdsOf(up))
    IN  OverlayLoop(bs, 1, cr, up, canceledIds, tStart, roomIds)

RECURSIVE InsertByStartDesc(_, _)
InsertByStartDesc(sorted, b) ==
    IF sorted = <<>> THEN <<b>>
    ELSE IF sorted[Len(sorted)].start >= b.start THEN Append(sorted, b)
    ELSE Append(InsertByStartDesc(SubSeq(sorted, 1, Len(sorted) - 1), b),
                sorted[Len(sorted)])

RECURSIVE SortByStartDesc(_)
\* list.sort(key=start, reverse=True): stable.
SortByStartDesc(bs) ==
    IF bs = <<>> THEN <<>>
    ELSE InsertByStartDesc(SortByStartDesc(SubSeq(bs, 1, Len(bs) - 1)), bs[Len(bs)])

\* How many bookings of the list carry the id.
CountOid(bs, id) == Cardinality({i \in 1..Len(bs) : bs[i].oid = id})

\* No read in progress.  after: the ids create had returned when the read
\* started; upd: the ids live in the updated table when it started; got: the
\* ids of which the account calendar fetch returned a booking; fetched: the
\* bookings it returned.
NoRead == [st |-> "idle", rooms |-> {}, after |-> {}, upd |-> {}, tStart |-> -1,
           now |-> -1, got |-> {}, fetched |-> <<>>, result |-> <<>>]

\* A read that has returned is over.
Forget(r) == IF r.st = "done" THEN NoRead ELSE r

OverlayIdle ==
    /\ recCanceled = <<>>
    /\ recCreated = <<>>
    /\ recUpdated = <<>>
    /\ rd = NoRead
    /\ createdAt = [id \in Ids |-> -1]
    /\ cancelAsked = [id \in Ids |-> FALSE]

-----------------------------------------------------------------------------
(* The service above the repository: idle values *)

NoMerge == [st |-> "idle"]
NoRequest == [st |-> "idle"]
NoOp == [st |-> "idle"]
NoItem == [exists |-> FALSE]

MergeIdle == mg = NoMerge
RouteIdle == rq = NoRequest /\ gwLog = {}
MutationIdle == op = NoOp /\ item = NoItem

NoPutMany == [st |-> "idle"]
NoEdit == [op |-> "none", n |-> 0]

EditIdle == pm = NoPutMany /\ ed = NoEdit

Kinds == {"canceled", "created", "updated"}
NoQuery == [op |-> "none"]

RecentIdle == rres = NoQuery /\ lastMark = [k \in Kinds |-> [id \in Ids |-> -1]]

NoPolicy == [st |-> "idle"]
PolicyIdle == pol = NoPolicy

NoUserRead == [st |-> "idle"]
UserReadIdle == ur = NoUserRead

ServiceIdle ==
    MergeIdle /\ RouteIdle /\ MutationIdle /\ EditIdle /\ RecentIdle /\ PolicyIdle
    /\ UserReadIdle

-----------------------------------------------------------------------------
(* SingleFlight: the specification *)

\* What the SingleFlight specification leaves alone.
SFFrame ==
    UNCHANGED <<clock, cacheVars, monoVars, readVars, overlayVars, serviceVars>>

SFInitVars ==
    /\ sfPairs = <<>>
    /\ tstatus = [t \in Tasks |-> "none"]
    /\ tkey = [t \in Tasks |-> "a"]
    /\ tval = [t \in Tasks |-> "v1"]
    /\ pc = [c \in Callers |-> "idle"]
    /\ ckey = [c \in Callers |-> "a"]
    /\ cdedup = [c \in Callers |-> TRUE]
    /\ ctask = [c \in Callers |-> 0]
    /\ cval = [c \in Callers |-> "v1"]
    /\ mustCancel = [c \in Callers |-> FALSE]
    /\ sawTask = [c \in Callers |-> 0]
    /\ sawDone = [c \in Callers |-> FALSE]
    /\ created = [c \in Callers |-> FALSE]

\* Mutant: the lock is kept while the task is awaited.
HoldsLockAtAwait_Yes(c) == TRUE

\* `async with self._lock` (lines 37-47) ends before `await task` (line 49):
\* a caller suspended on its task does not hold the lock.
HoldsLockAtAwait(c) == FALSE

\* self._lock can be acquired: no suspended caller holds it.
LockFree == \A d \in Callers : pc[d] = "awaiting" => ~HoldsLockAtAwait(d)

\* run(key, create_task_func, use_dedup) up to its `await task`.
\* Callers are interchangeable, so they are taken to start in the order of
\* their names.
Run(c, key, use_dedup) ==
    /\ pc[c] = "idle"
    /\ LockFree
    /\ \A d \in Callers : d < c => pc[d] # "idle"
    /\ LET r == RunRegister(sfPairs, key, use_dedup, c)
       IN  /\ sfPairs' = r.pairs
           /\ ctask' = [ctask EXCEPT ![c] = r.task]
           /\ created' = [created EXCEPT ![c] = r.made]
           /\ sawTask' = [sawTask EXCEPT ![c] = r.existing]
           /\ sawDone' = [sawDone EXCEPT ![c] = r.existing # 0 /\ TaskDone(r.existing)]
           /\ tstatus' = IF r.made THEN [tstatus EXCEPT ![c] = "running"] ELSE tstatus
           /\ tkey' = IF r.made THEN [tkey EXCEPT ![c] = key] ELSE tkey
    /\ pc' = [pc EXCEPT ![c] = "awaiting"]
    /\ ckey' = [ckey EXCEPT ![c] = key]
    /\ cdedup' = [cdedup EXCEPT ![c] = use_dedup]
    /\ UNCHANGED <<tval, cval, mustCancel>>
    /\ SFFrame

\* The task's coroutine finishes with a value.
TaskSucceed(t, v) ==
    /\ tstatus[t] = "running"
    /\ tstatus' = [tstatus EXCEPT ![t] = "ok"]
    /\ tval' = [tval EXCEPT ![t] = v]
    /\ UNCHANGED <<sfPairs, tkey, pc, ckey, cdedup, ctask, cval, mustCancel,
                   sawTask, sawDone, created>>
    /\ SFFrame

\* The task's coroutine raises.
TaskFail(t) ==
    /\ tstatus[t] = "running"
    /\ tstatus' = [tstatus EXCEPT ![t] = "failed"]
    /\ UNCHANGED <<sfPairs, tkey, tval, pc, ckey, cdedup, ctask, cval,
                   mustCancel, sawTask, sawDone, created>>
    /\ SFFrame

\* A task whose cancellation was requested ends cancelled: CancelledError is
\* thrown into its coroutine, which does not catch it.
TaskCancelled(t) ==
    /\ tstatus[t] = "cancelling"
    /\ tstatus' = [tstatus EXCEPT ![t] = "cancelled"]
    /\ UNCHANGED <<sfPairs, tkey, tval, pc, ckey, cdedup, ctask, cval,
                   mustCancel, sawTask, sawDone, created>>
    /\ SFFrame

\* The effect on the awaited task of cancelling a caller suspended at
\* `await task` (line 49): asyncio forwards the cancellation to the future the
\* caller waits on; the task is not shielded.
CancelForward(st) == IF st = "running" THEN "cancelling" ELSE st

\* The caller's own task is cancelled while it is suspended at `await task`.
CancelCaller(c) ==
    /\ pc[c] = "awaiting"
    /\ ~mustCancel[c]
    /\ Cardinality({d \in Callers : mustCancel[d]}) < MaxCancels
    /\ mustCancel' = [mustCancel EXCEPT ![c] = TRUE]
    /\ tstatus' = [tstatus EXCEPT ![ctask[c]] = CancelForward(tstatus[ctask[c]])]
    /\ UNCHANGED <<sfPairs, tkey, tval, pc, ckey, cdedup, ctask, cval,
                   sawTask, sawDone, created>>
    /\ SFFrame

\* The caller resumes from `await task` (the task is done) and runs the
\* finally block.
Resume(c) ==
    /\ pc[c] = "awaiting"
    /\ TaskDone(ctask[c])
    /\ pc' = [pc EXCEPT ![c] = AwaitOutcome(c)]
    /\ cval' = [cval EXCEPT ![c] = IF AwaitOutcome(c) = "returned"
                                   THEN tval[ctask[c]] ELSE cval[c]]
    /\ sfPairs' = RunCleanup(sfPairs, ckey[c], ctask[c])
    /\ UNCHANGED <<tstatus, tkey, tval, ckey, cdedup, ctask, mustCancel,
                   sawTask, sawDone, created>>
    /\ SFFrame

SFInit ==
    /\ SFInitVars /\ clock = 0 /\ CacheInitVars /\ MonoIdle /\ ReadIdle /\ OverlayIdle
    /\ ServiceIdle

SFNext ==
    \/ \E c \in Callers, k \in Keys, d \in BOOLEAN : Run(c, k, d)
    \/ \E t \in Tasks, v \in Vals : TaskSucceed(t, v)
    \/ \E t \in Tasks : TaskFail(t)
    \/ \E t \in Tasks : TaskCancelled(t)
    \/ \E c \in Callers : CancelCaller(c)
    \/ \E c \in Callers : Resume(c)

SpecSF == SFInit /\ [][SFNext]_vars

-----------------------------------------------------------------------------
(* SingleFlight: claims *)

Started(c) == pc[c] # "idle"
TasksOf(k) == {t \in Tasks : tstatus[t] # "none" /\ tkey[t] = k}

\* C1: callers of run(k, make_task) with use_dedup = true that start while
\* the task registered under k has not completed share that task: while no
\* task of k has completed make_task has been invoked once, a caller that
\* found an unfinished task registered does not invoke make_task and awaits
\* that task, and every caller that returns returns its task's result.
C1_DedupSharesOneTask ==
    \A k \in Keys :
        (\A c \in Callers : Started(c) /\ ckey[c] = k => cdedup[c]) =>
            /\ (\A t \in TasksOf(k) : ~TaskDone(t)) => Cardinality(TasksOf(k)) <= 1
            /\ \A c \in Callers :
                   (Started(c) /\ ckey[c] = k /\ sawTask[c] # 0 /\ ~sawDone[c]) =>
                       (~created[c] /\ ctask[c] = sawTask[c])
            /\ \A c \in Callers :
                   (pc[c] = "returned" /\ ckey[c] = k) => cval[c] = tval[ctask[c]]

\* C1 witness: two overlapping callers of one key got one task's result.
C1_Witness ==
    /\ pc[1] = "returned" /\ pc[2] = "returned"
    /\ ckey[1] = ckey[2] /\ cdedup[1] /\ cdedup[2]
    /\ created[1] /\ ~created[2] /\ ctask[2] = 1
    /\ cval[1] = cval[2]

\* C3: a run that starts when the task registered under its key is done
\* (succeeded, failed or cancelled) invokes make_task again and gets the new
\* task's outcome; a caller shares a task only if that task was not done when
\* the caller started, so a failure reaches only callers that were awaiting
\* the failed task.
C3_CompletedTaskNotReused ==
    \A c \in Callers :
        Started(c) =>
            /\ (sawTask[c] # 0 /\ sawDone[c]) => (created[c] /\ ctask[c] = c)
            /\ ~created[c] => (ctask[c] = sawTask[c] /\ ~sawDone[c])
            /\ pc[c] = "returned" =>
                   (tstatus[ctask[c]] = "ok" /\ cval[c] = tval[ctask[c]])
            /\ pc[c] = "raised" => tstatus[ctask[c]] = "failed"

\* C3 witness: caller 2 started after task 1 had failed, made its own task
\* and returned that task's value.
C3_Witness ==
    /\ sawTask[2] = 1 /\ sawDone[2] /\ tstatus[1] = "failed"
    /\ cdedup[2] /\ created[2] /\ pc[2] = "returned"

\* C4 (as claimed): when a caller awaiting the in-flight task is cancelled,
\* the task is not cancelled, and no other caller awaiting that task is
\* cancelled with it.
C4_CancelLeavesTaskRunning ==
    \A c, d \in Callers :
        (c # d /\ Started(c) /\ Started(d) /\ ctask[c] = ctask[d]
              /\ mustCancel[c] /\ ~mustCancel[d]) =>
            /\ tstatus[ctask[c]] \notin {"cancelling", "cancelled"}
            /\ pc[d] # "cancelled"

\* The task registered under the key (0: none).
Registered(pairs, k) == IF Find(pairs, k) > 0 THEN pairs[Find(pairs, k)][2] ELSE 0

\* C35: when a caller of run finishes awaiting task T for key k, it removes
\* the registry entry of k only if that entry still holds T; an entry that
\* holds a different, newer task stays, and so does every other key's entry.
C35_CleanupIsGuarded ==
    [][\A c \in Callers :
          (pc[c] = "awaiting" /\ pc'[c] # "awaiting") =>
              \A k \in Keys :
                  Registered(sfPairs', k) =
                      IF k = ckey[c] /\ Registered(sfPairs, k) = ctask[c] THEN 0
                      ELSE Registered(sfPairs, k)]_vars

\* C35 witness: caller 2 started while task 1, done, was still registered,
\* and made task 2; caller 1 has finished since, and task 2, still running,
\* is still registered.
C35_Witness ==
    /\ pc[1] \in {"returned", "raised", "cancelled"} /\ ctask[1] = 1
    /\ ckey[2] = ckey[1] /\ sawTask[2] = 1 /\ created[2]
    /\ tstatus[2] = "running"
    /\ Registered(sfPairs, ckey[1]) = 2

\* run is in progress for no caller: each has not called, or has returned,
\* raised or been cancelled.
NoRunInProgress == \A c \in Callers : pc[c] # "awaiting"

\* C40: SingleFlight leaves nothing behind: whenever no run call is in
\* progress the registry holds no entry.
C40_NothingLeftBehind == NoRunInProgress => sfPairs = <<>>

\* C40 witness: both callers ran, for the same key, the second without
\* dedup while the first's task was in flight, and both are over.
C40_Witness ==
    /\ \A c \in Callers : pc[c] \in {"returned", "raised", "cancelled"}
    /\ ckey[1] = ckey[2] /\ ~cdedup[2] /\ created[2]
    /\ sawTask[2] = 1 /\ ~sawDone[2]
    /\ sfPairs = <<>>

-----------------------------------------------------------------------------
(* CacheForBookings: the specification *)

CacheFrame == UNCHANGED <<sfVars, monoVars, readVars, overlayVars, serviceVars>>

\* time.monotonic() advances.
Tick ==
    /\ clock < MaxClock
    /\ clock' = clock + 1
    /\ UNCHANGED <<cache, lastPut, nputs>>
    /\ cres' = NoRes
    /\ CacheFrame

\* update_cache(room_id, bookings, start, end) at now = time.monotonic()
UpdateCache(room, bookings, w) ==
    /\ nputs < MaxPuts
    /\ nputs' = nputs + 1
    /\ cache' = UpdateCacheImpl(cache, room, bookings, w[1], w[2], Now)
    /\ lastPut' = [lastPut EXCEPT ![room] =
                      [start |-> w[1], end |-> w[2], now |-> Now,
                       bookings |-> bookings]]
    /\ cres' = [NoRes EXCEPT !.op = "put", !.rooms = {room}]
    /\ UNCHANGED clock
    /\ CacheFrame

\* update_cache_from_mapping(room_id_x_bookings, start, end)
UpdateCacheFromMapping(mapping, w) ==
    /\ nputs < MaxPuts
    /\ nputs' = nputs + 1
    /\ cache' = UpdateFromMapping(cache, DOMAIN mapping, mapping, w[1], w[2], Now)
    /\ lastPut' = [r \in Rooms |->
                      IF r \in DOMAIN mapping
                      THEN [start |-> w[1], end |-> w[2], now |-> Now,
                            bookings |-> mapping[r]]
                      ELSE lastPut[r]]
    /\ cres' = [NoRes EXCEPT !.op = "put", !.rooms = DOMAIN mapping]
    /\ UNCHANGED clock
    /\ CacheFrame

\* get_cached_entry(room_id, start, end) at now = time.monotonic()
GetCachedEntry(room, w) ==
    LET g == GetCachedEntryImpl(cache, room, w[1], w[2], Now)
    IN  /\ cache' = g.cache
        /\ cres' = [NoRes EXCEPT !.op = "get", !.rooms = {room}, !.start = w[1],
                                 !.end = w[2], !.now = Now, !.hit = g.hit,
                                 !.slot = g.slot]
        /\ UNCHANGED <<clock, lastPut, nputs>>
        /\ CacheFrame

\* get_cached_bookings(room_ids, start, end)
GetCachedBookingsOp(rooms, w) ==
    LET g == GetCachedBookings(cache, rooms, w[1], w[2], Now, {}, {})
    IN  /\ cache' = g.cache
        /\ cres' = [NoRes EXCEPT !.op = "multi", !.rooms = rooms, !.start = w[1],
                                 !.end = w[2], !.now = Now, !.hits = g.hits,
                                 !.misses = g.misses]
        /\ UNCHANGED <<clock, lastPut, nputs>>
        /\ CacheFrame

CacheInit ==
    /\ SFInitVars /\ clock = 0 /\ CacheInitVars /\ MonoIdle /\ ReadIdle /\ OverlayIdle
    /\ ServiceIdle

CacheNext ==
    \/ Tick
    \/ \E room \in Rooms, w \in Windows :
           UpdateCache(room, Fetched(room, w, Now), w)
    \/ \E w \in Windows :
           UpdateCacheFromMapping([r \in Rooms |-> Fetched(r, w, Now)], w)
    \/ \E room \in Rooms, w \in Windows : GetCachedEntry(room, w)
    \/ \E w \in Windows : GetCachedBookingsOp(Rooms, w)

SpecCache == CacheInit /\ [][CacheNext]_vars

-----------------------------------------------------------------------------
(* CacheForBookings: claims *)

SlotsOf(c, room) == {c[room][i] : i \in 1..Len(c[room])}

\* C6: get(room, s, e, now) is a hit if and only if the room holds a slot with
\* timestamp + ttl > now, start <= s and end >= e, and the slot it returns is
\* such a slot of that room; slots that only overlap [s, e] and slots of other
\* rooms do not count.  (A step property: the cache is the one get was given.)
C6_HitIffContained ==
    [][cres'.op = "get" =>
          LET room == CHOOSE r \in cres'.rooms : TRUE
              good == {sl \in SlotsOf(cache, room) :
                          /\ sl.timestamp + TtlSec > cres'.now
                          /\ sl.start <= cres'.start
                          /\ sl.end >= cres'.end}
          IN  /\ cres'.hit <=> good # {}
              /\ cres'.hit => cres'.slot \in good]_vars

\* C6 witness: a get missed although the room held a live slot overlapping the
\* request (and the other room a live slot containing it).
C6_Witness ==
    /\ cres.op = "get" /\ ~cres.hit /\ cres.rooms = {"r1"}
    /\ \E sl \in SlotsOf(cache, "r1") :
           /\ sl.timestamp + TtlSec > cres.now
           /\ sl.start < cres.end /\ cres.start < sl.end
    /\ \E sl \in SlotsOf(cache, "r2") :
           /\ sl.timestamp + TtlSec > cres.now
           /\ sl.start <= cres.start /\ sl.end >= cres.end

InWindowOfLastPut(room) ==
    /\ lastPut[room].now >= 0
    /\ lastPut[room].start <= cres.start
    /\ cres.end <= lastPut[room].end

\* C7 (as claimed): a get of a window inside the window of the latest put of
\* the room, made before that put's slot expires, is a hit whose bookings are
\* the bookings of that put, whatever other slots the room holds.
C7_GetReturnsLatestPut ==
    \A room \in Rooms :
        (cres.op = "get" /\ cres.rooms = {room} /\ InWindowOfLastPut(room)
              /\ cres.now < lastPut[room].now + TtlSec) =>
            (cres.hit /\ cres.slot.bookings = lastPut[room].bookings)

\* C8: no slot is returned by get or get_multi at a time now with
\* timestamp + ttl <= now; after the latest put of a room at time t, a get of
\* the room at now >= t + ttl misses, and a get at now < t + ttl of a window
\* inside the put's window hits.
C8_Ttl ==
    /\ (cres.op = "get" /\ cres.hit) => cres.slot.timestamp + TtlSec > cres.now
    /\ cres.op = "multi" =>
           \A h \in cres.hits : h[2].timestamp + TtlSec > cres.now
    /\ \A room \in Rooms :
           (cres.op = "get" /\ cres.rooms = {room} /\ lastPut[room].now >= 0) =>
               /\ cres.now >= lastPut[room].now + TtlSec => ~cres.hit
               /\ (cres.now < lastPut[room].now + TtlSec /\ InWindowOfLastPut(room))
                      => cres.hit

\* C8 witness: a get at exactly t + ttl after a put at t missed.
C8_Witness ==
    /\ cres.op = "get" /\ ~cres.hit /\ cres.rooms = {"r1"}
    /\ lastPut["r1"].now >= 0
    /\ cres.now = lastPut["r1"].now + TtlSec
    /\ InWindowOfLastPut("r1")

\* C8 second witness state: a get one tick before expiry hit.
C8_WitnessHit ==
    /\ cres.op = "get" /\ cres.hit /\ cres.rooms = {"r1"}
    /\ cres.now = lastPut["r1"].now + TtlSec - 1
    /\ cres.slot.timestamp = lastPut["r1"].now

-----------------------------------------------------------------------------
(* CacheForBookings: reads of one room and window over time *)

\* get_cached_entry for the followed room and window.
ReadProbe ==
    LET g == GetCachedEntryImpl(cache, probe[1], probe[2][1], probe[2][2], Now)
    IN  /\ cache' = g.cache
        /\ lastHit' = IF g.hit THEN g.slot.timestamp ELSE lastHit
        /\ firstHit' = IF g.hit /\ firstHit = -1 THEN g.slot.timestamp ELSE firstHit
        /\ cres' = [NoRes EXCEPT !.op = "get", !.rooms = {probe[1]},
                                 !.start = probe[2][1], !.end = probe[2][2],
                                 !.now = Now, !.hit = g.hit, !.slot = g.slot]
        /\ UNCHANGED <<clock, lastPut, nputs, probe, sfVars, readVars, overlayVars,
                       serviceVars>>

\* get_cached_entry for any room and window, its result not followed.
ReadOther(room, w) ==
    LET g == GetCachedEntryImpl(cache, room, w[1], w[2], Now)
    IN  /\ cache' = g.cache
        /\ cres' = NoRes
        /\ UNCHANGED <<clock, lastPut, nputs, probe, lastHit, firstHit, sfVars,
                       readVars, overlayVars, serviceVars>>

\* Rooms are interchangeable: the followed room is r1.
MonoInit ==
    /\ SFInitVars /\ clock = 0 /\ CacheInitVars /\ ReadIdle /\ OverlayIdle
    /\ ServiceIdle
    /\ probe \in {"r1"} \X Windows
    /\ lastHit = -1
    /\ firstHit = -1

MonoNext ==
    \/ Tick
    \/ \E room \in Rooms, w \in Windows :
           UpdateCache(room, Fetched(room, w, Now), w)
    \/ \E w \in Windows :
           UpdateCacheFromMapping([r \in Rooms |-> Fetched(r, w, Now)], w)
    \/ ReadProbe
    \/ \E room \in Rooms, w \in Windows : ReadOther(room, w)

SpecCacheMono == MonoInit /\ [][MonoNext]_vars

\* C9: for a fixed room and window, each hit returns a slot whose timestamp is
\* at least the timestamp of the slot the previous hit returned.
C9_MonotonicReads == [][lastHit' >= lastHit]_vars

\* C9 witness: a hit returned a newer slot than the first hit had, the older
\* slot having been evicted while still live.
C9_Witness ==
    /\ cres.op = "get" /\ cres.hit
    /\ firstHit = 0
    /\ lastHit = cres.slot.timestamp
    /\ lastHit > firstHit
    /\ firstHit + TtlSec > cres.now

-----------------------------------------------------------------------------
(* The fetch of one source: the specification *)

\* What the fetch path leaves alone.
ReadFrame == UNCHANGED <<source, monoVars, overlayVars, serviceVars>>

\* _fetch_bookings_from_account_calendar / _fetch_bookings_from_busy_info with
\* use_cache = True, up to its first suspension: the cache lookup, and on a
\* miss SingleFlight.run up to `await task`.
FetchStart(c, rooms, w) ==
    /\ pc[c] = "idle"
    /\ \A d \in Callers : d < c => pc[d] # "idle"
    /\ LET g == GetCachedBookings(cache, rooms, w[1], w[2], Now, {}, {})
           key == FetchKey(source, rooms, w)
           r == RunRegister(sfPairs, key, ReadUseDedup, c)
       IN  /\ cache' = g.cache
           /\ IF g.misses = {}
              THEN /\ pc' = [pc EXCEPT ![c] = "returned"]
                   /\ chit' = [chit EXCEPT ![c] = TRUE]
                   /\ cout' = [cout EXCEPT ![c] = HitsToMapping(rooms, g.hits)]
                   /\ UNCHANGED <<sfPairs, tstatus, tkey, ckey, cdedup, ctask,
                                  sawTask, sawDone, created>>
              ELSE /\ pc' = [pc EXCEPT ![c] = "awaiting"]
                   /\ sfPairs' = r.pairs
                   /\ ctask' = [ctask EXCEPT ![c] = r.task]
                   /\ created' = [created EXCEPT ![c] = r.made]
                   /\ sawTask' = [sawTask EXCEPT ![c] = r.existing]
                   /\ sawDone' = [sawDone EXCEPT ![c] =
                                     r.existing # 0 /\ TaskDone(r.existing)]
                   /\ tstatus' = IF r.made THEN [tstatus EXCEPT ![c] = "running"]
                                 ELSE tstatus
                   /\ tkey' = IF r.made THEN [tkey EXCEPT ![c] = key] ELSE tkey
                   /\ ckey' = [ckey EXCEPT ![c] = key]
                   /\ cdedup' = [cdedup EXCEPT ![c] = ReadUseDedup]
                   /\ UNCHANGED <<chit, cout>>
    /\ crooms' = [crooms EXCEPT ![c] = rooms]
    /\ cwin' = [cwin EXCEPT ![c] = w]
    /\ busyAtStart' = [busyAtStart EXCEPT ![c] = {d \in Callers : pc[d] = "awaiting"}]
    /\ UNCHANGED <<tval, cval, mustCancel, written, clock, cres, lastPut, nputs>>
    /\ ReadFrame

\* The fetch resumes from `await task`: the finally block of run, and when
\* the await returned a value the conversion and update_cache_from_mapping.
FetchResume(c) ==
    /\ pc[c] = "awaiting"
    /\ TaskDone(ctask[c])
    /\ pc' = [pc EXCEPT ![c] = AwaitOutcome(c)]
    /\ sfPairs' = RunCleanup(sfPairs, ckey[c], ctask[c])
    /\ IF AwaitOutcome(c) = "returned"
       THEN LET out == Convert(source, tval[ctask[c]], crooms[c])
            IN  /\ cval' = [cval EXCEPT ![c] = tval[ctask[c]]]
                /\ cout' = [cout EXCEPT ![c] = out]
                /\ cache' = UpdateFromMapping(cache, crooms[c], out,
                                              cwin[c][1], cwin[c][2], Now)
                /\ lastPut' = [r \in Rooms |->
                                  IF r \in crooms[c]
                                  THEN [start |-> cwin[c][1], end |-> cwin[c][2],
                                        now |-> Now, bookings |-> out[r]]
                                  ELSE lastPut[r]]
                /\ nputs' = nputs + 1
                /\ written' = [written EXCEPT ![ctask[c]] = TRUE]
       ELSE UNCHANGED <<cval, cout, cache, lastPut, nputs, written>>
    /\ UNCHANGED <<tstatus, tkey, tval, ckey, cdedup, ctask, mustCancel,
                   sawTask, sawDone, created, crooms, cwin, chit, busyAtStart,
                   clock, cres>>
    /\ ReadFrame

ReadInit ==
    /\ SFInitVars /\ clock = 0 /\ CacheInitVars /\ MonoIdle /\ OverlayIdle
    /\ ServiceIdle
    /\ ReadInitVars
    /\ source \in {"ac", "bi"}

ReadNext ==
    \/ \E c \in Callers, rooms \in RoomSets, w \in ReadWindows : FetchStart(c, rooms, w)
    \/ \E t \in Tasks, v \in Vals : TaskSucceed(t, v)
    \/ \E t \in Tasks : TaskFail(t)
    \/ \E t \in Tasks : TaskCancelled(t)
    \/ \E c \in Callers : CancelCaller(c)
    \/ \E c \in Callers : FetchResume(c)
    \/ Tick

SpecRead == ReadInit /\ [][ReadNext]_vars

-----------------------------------------------------------------------------
(* The fetch of one source: claims *)

C5_CompletedTaskIsCached ==
    \A t \in Tasks :
        (tstatus[t] = "ok" /\ \A c \in Callers : ctask[c] = t => pc[c] # "awaiting")
            => written[t]

-----------------------------------------------------------------------------
(* The room read over RecentBookings: the specification *)

\* What the overlay and the mutations leave alone.  (The two fetches of a
\* read act on the caches and on SingleFlight as SpecRead describes; here the
\* mappings they return are inputs of the read.)
OverlayFrame == UNCHANGED <<sfVars, cacheVars, monoVars, readVars, serviceVars>>

RECURSIVE AccountCalendarFetch(_, _)
\* The bookings a fetch from the account calendar returned: for each id of
\* todo none, the booking as created or the booking as updated.
AccountCalendarFetch(ver, todo) ==
    IF todo = {} THEN <<>>
    ELSE LET id == CHOOSE i \in todo : \A j \in todo : i <= j
         IN  (IF ver[id] = "no" THEN <<>>
              ELSE IF ver[id] = "old" THEN <<CreatedBooking(id)>>
              ELSE <<UpdatedBooking(id)>>)
                 \o AccountCalendarFetch(ver, todo \ {id})

\* The bookings a fetch from busy info returned: none, or for room r1 an
\* event (no id) at the time of the booking as created.
BusyInfoFetch(busy, rooms) ==
    IF busy /\ "r1" \in rooms THEN <<Bk("r1", 0, 1, 0)>> ELSE <<>>

\* create_booking returns: the room answered (or the polls ran out) and the
\* booking is marked created (lines 545-556).
CreateReturn(id) ==
    /\ createdAt[id] = -1
    /\ ~cancelAsked[id]
    /\ recCreated' = Mark(recCreated, id, CreatedBooking(id), Now)
    /\ recCanceled' = Prune(recCanceled, Now)
    /\ recUpdated' = Prune(recUpdated, Now)
    /\ createdAt' = [createdAt EXCEPT ![id] = Now]
    /\ rd.st # "done"
    /\ UNCHANGED rd
    /\ UNCHANGED <<cancelAsked, clock>>
    /\ OverlayFrame

\* create_booking fails: the room declined, the item is cancelled and 403 is
\* raised (lines 541-543).
CreateDeclined(id) ==
    /\ createdAt[id] = -1
    /\ ~cancelAsked[id]
    /\ recCanceled' = Mark(recCanceled, id, NoBooking, Now)
    /\ recCreated' = Prune(recCreated, Now)
    /\ recUpdated' = Prune(recUpdated, Now)
    /\ cancelAsked' = [cancelAsked EXCEPT ![id] = TRUE]
    /\ rd.st # "done"
    /\ UNCHANGED rd
    /\ UNCHANGED <<createdAt, clock>>
    /\ OverlayFrame

\* update_booking returns the moved booking and marks it updated (line 614).
UpdateReturn(id) ==
    /\ createdAt[id] >= 0
    /\ ~cancelAsked[id]
    /\ recUpdated' = Mark(recUpdated, id, UpdatedBooking(id), Now)
    /\ recCreated' = Prune(recCreated, Now)
    /\ recCanceled' = Prune(recCanceled, Now)
    /\ rd.st # "done"
    /\ UNCHANGED rd
    /\ UNCHANGED <<createdAt, cancelAsked, clock>>
    /\ OverlayFrame

\* cancel_booking: nothing to do when the id is recently canceled, else the
\* item is cancelled and the id marked canceled.
CancelBooking(id) ==
    /\ createdAt[id] >= 0
    /\ recCanceled' = IF IsMarked(recCanceled, id, Now) THEN Prune(recCanceled, Now)
                      ELSE Mark(recCanceled, id, NoBooking, Now)
    /\ recCreated' = Prune(recCreated, Now)
    /\ recUpdated' = Prune(recUpdated, Now)
    /\ cancelAsked' = [cancelAsked EXCEPT ![id] = TRUE]
    /\ rd.st # "done"
    /\ UNCHANGED rd
    /\ UNCHANGED <<createdAt, clock>>
    /\ OverlayFrame

\* _fetch_bookings_both_from_account_calendar_and_busy_info up to the gather:
\* t_start is taken.
ReadStart(rooms) ==
    /\ rd.st # "fetching"
    /\ rd' = [st |-> "fetching", rooms |-> rooms,
              after |-> {id \in Ids : createdAt[id] >= 0},
              upd |-> IdsOf(Prune(recUpdated, Now)),
              tStart |-> Now, now |-> -1, got |-> {}, fetched |-> <<>>,
              result |-> <<>>]
    /\ UNCHANGED <<recCanceled, recCreated, recUpdated, createdAt, cancelAsked, clock>>
    /\ OverlayFrame

\* The gather returned the bookings of the two sources (ver, busy): merge with
\* the keys in the given order, overlay, sort, return.
ReadFinish(ver, busy, order) ==
    /\ rd.st = "fetching"
    /\ recCreated' = Prune(recCreated, Now)
    /\ recCanceled' = Prune(recCanceled, Now)
    /\ recUpdated' = Prune(recUpdated, Now)
    /\ rd' = [rd EXCEPT
                 !.st = "done",
                 !.now = Now,
                 !.got = {id \in DOMAIN ver : ver[id] # "no"},
                 !.fetched = AccountCalendarFetch(ver, DOMAIN ver),
                 !.result = SortByStartDesc(
                     ApplyOverlay(MergeSources(AccountCalendarFetch(ver, DOMAIN ver),
                                               BusyInfoFetch(busy, rd.rooms),
                                               order, 1),
                                  Prune(recCreated, Now), Prune(recUpdated, Now),
                                  Prune(recCanceled, Now), rd.tStart, rd.rooms))]
    /\ UNCHANGED <<createdAt, cancelAsked, clock>>
    /\ OverlayFrame

\* The read hands its result to its caller and is over.
ReadReturn ==
    /\ rd.st = "done"
    /\ rd' = Forget(rd)
    /\ UNCHANGED <<recCanceled, recCreated, recUpdated, createdAt, cancelAsked, clock>>
    /\ OverlayFrame

\* time.monotonic() advances.
OverlayTick ==
    /\ clock < MaxClock
    /\ clock' = clock + 1
    /\ rd.st # "done"
    /\ UNCHANGED rd
    /\ UNCHANGED <<recCanceled, recCreated, recUpdated, createdAt, cancelAsked>>
    /\ OverlayFrame

OverlayInit ==
    /\ SFInitVars /\ clock = 0 /\ CacheInitVars /\ MonoIdle /\ ReadIdle
    /\ OverlayIdle
    /\ ServiceIdle

OverlayNext ==
    \/ \E id \in Ids : CreateReturn(id)
    \/ \E id \in Ids : CreateDeclined(id)
    \/ \E id \in Ids : UpdateReturn(id)
    \/ \E id \in Ids : CancelBooking(id)
    \/ \E rooms \in RoomSets : ReadStart(rooms)
    \/ \E ver \in [{id \in Ids : RoomOf(id) \in rd.rooms} -> {"no", "old", "new"}],
          busy \in BOOLEAN :
           \E order \in Orders(KeysIn(AccountCalendarFetch(ver, DOMAIN ver))
                                   \cup KeysIn(BusyInfoFetch(busy, rd.rooms))) :
               ReadFinish(ver, busy, order)
    \/ ReadReturn
    \/ OverlayTick

SpecOverlay == OverlayInit /\ [][OverlayNext]_vars

-----------------------------------------------------------------------------
(* The room read over RecentBookings: claims *)

\* C10 (as claimed): a read of the room of a booking that create returned,
\* started after create returned and finished less than the recently ttl
\* after it, returns exactly one booking with the booking's id, unless the id
\* has been canceled; whatever the fetches return and whatever else happened.
C10_ReadYourWritesAfterCreate ==
    \A id \in Ids :
        (rd.st = "done" /\ createdAt[id] >= 0 /\ ~cancelAsked[id]
              /\ RoomOf(id) \in rd.rooms
              /\ id \in rd.after
              /\ rd.now - createdAt[id] < RecentTtlSec) =>
            CountOid(rd.result, id) = 1

\* C11: a read returns no booking with the id of an entry that is live in the
\* canceled table when the read returns, whatever the fetches returned and
\* whether or not the id is in the created or updated table as well.
C11_CanceledNeverReturned ==
    rd.st = "done" => \A id \in IdsOf(recCanceled) : CountOid(rd.result, id) = 0

\* C11 witness: id 1 is live in all three tables, the account calendar still
\* returned its booking to a read of its room, and the read left it out.
C11_Witness ==
    /\ rd.st = "done" /\ "r1" \in rd.rooms
    /\ 1 \in IdsOf(recCanceled) /\ 1 \in IdsOf(recCreated) /\ 1 \in IdsOf(recUpdated)
    /\ 1 \in rd.got
    /\ CountOid(rd.result, 1) = 0

\* C12 (as claimed): a read of the room of a booking whose update had returned
\* when the read started, returning while the updated entry is live and the id
\* not canceled, returns the updated booking as the only booking of that id,
\* whatever the fetches returned.
C12_ReadYourWritesAfterUpdate ==
    \A id \in Ids :
        (rd.st = "done" /\ id \in rd.upd /\ id \in IdsOf(recUpdated)
              /\ ~cancelAsked[id] /\ RoomOf(id) \in rd.rooms) =>
            /\ CountOid(rd.result, id) = 1
            /\ \E i \in 1..Len(rd.result) : rd.result[i] = UpdatedBooking(id)

\* The booking with the id that the account calendar fetch returned.
FetchedOf(id) ==
    rd.fetched[CHOOSE i \in 1..Len(rd.fetched) : rd.fetched[i].oid = id]

\* C34: in a room read started at t, a fetched booking whose id is live in
\* the updated table and not canceled is replaced by the table's booking if
\* and only if the entry's timestamp is greater than t - ttl_calendar_view;
\* otherwise the fetched version is returned; either way exactly one booking
\* with that id is in the result.
C34_UpdatedReplacement ==
    \A id \in Ids :
        (rd.st = "done" /\ id \in rd.got /\ id \in IdsOf(recUpdated)
              /\ id \notin IdsOf(recCanceled)) =>
            /\ CountOid(rd.result, id) = 1
            /\ \E i \in 1..Len(rd.result) :
                   rd.result[i] = IF EntryOf(recUpdated, id).ts > rd.tStart - TtlCalendarView
                                  THEN EntryOf(recUpdated, id).b
                                  ELSE FetchedOf(id)

\* C34 witness: the entry of id 1 is live but older than t - ttl, the fetch
\* returned the booking as it was before the update, and the read returns
\* that one.
C34_Witness ==
    /\ rd.st = "done" /\ 1 \in rd.got /\ 1 \in IdsOf(recUpdated)
    /\ 1 \notin IdsOf(recCanceled)
    /\ EntryOf(recUpdated, 1).ts <= rd.tStart - TtlCalendarView
    /\ FetchedOf(1) = CreatedBooking(1)
    /\ CountOid(rd.result, 1) = 1
    /\ \E i \in 1..Len(rd.result) : rd.result[i] = CreatedBooking(1)


-----------------------------------------------------------------------------
(* The mutating HTTP routes: POST, PATCH and DELETE /bookings               *)
(* `allowed' is the verdict can_book gives for the request's user, room and *)
(* interval; `asked' records that the handler called can_book and got allow *)
(* before it reached the repository.                                        *)

RouteKinds == {"create", "update", "delete"}

GatewayCall(call, asked, allowed) == [call |-> call, asked |-> asked, allowed |-> allowed]

Answered(kind, allowed, status) ==
    [st |-> "done", kind |-> kind, allowed |-> allowed, status |-> status]

RouteFrame ==
    UNCHANGED <<sfVars, clock, cacheVars, monoVars, readVars, overlayVars, mg, op, item,
                editVars, recentVars, pol, ur>>

\* POST /bookings/ ; `outcome' is how the repository's create_booking ended.
CreateBookingRoute(validRange, roomKnown, userKnown, allowed, outcome) ==
    /\ IF ~validRange THEN
            /\ rq' = Answered("create", allowed, 400)
            /\ UNCHANGED gwLog
       ELSE IF ~roomKnown THEN
            /\ rq' = Answered("create", allowed, 404)
            /\ UNCHANGED gwLog
       ELSE IF ~userKnown THEN
            /\ rq' = Answered("create", allowed, 403)
            /\ UNCHANGED gwLog
       ELSE IF ~allowed THEN
            /\ rq' = Answered("create", allowed, 403)
            /\ UNCHANGED gwLog
       ELSE
            /\ gwLog' = gwLog \cup {GatewayCall("create_item", TRUE, allowed)}
                              \cup (IF outcome = "declined"
                                      THEN {GatewayCall("cancel_item", TRUE, allowed)}
                                      ELSE {})
            /\ rq' = Answered("create", allowed,
                              CASE outcome = "ok" -> 200
                                [] outcome = "declined" -> 403
                                [] OTHER -> 404)
    /\ RouteFrame

\* PATCH /bookings/{id} ; `confirmed' is whether update_booking returned a booking.
UpdateBookingRoute(found, participant, roomKnown, userKnown, allowed, confirmed) ==
    /\ IF ~found THEN
            /\ rq' = Answered("update", allowed, 404)
            /\ UNCHANGED gwLog
       ELSE IF ~participant THEN
            /\ rq' = Answered("update", allowed, 403)
            /\ UNCHANGED gwLog
       ELSE IF ~roomKnown THEN
            /\ rq' = Answered("update", allowed, 400)
            /\ UNCHANGED gwLog
       ELSE IF ~userKnown THEN
            /\ rq' = Answered("update", allowed, 403)
            /\ UNCHANGED gwLog
       ELSE IF ~allowed THEN
            /\ rq' = Answered("update", allowed, 403)
            /\ UNCHANGED gwLog
       ELSE
            /\ gwLog' = gwLog \cup {GatewayCall("update_item", TRUE, allowed)}
            /\ rq' = Answered("update", allowed, IF confirmed THEN 200 ELSE 404)
    /\ RouteFrame

\* DELETE /bookings/{id}
DeleteBookingRoute(found, participant, allowed) ==
    /\ IF ~found THEN
            /\ rq' = Answered("delete", allowed, 404)
            /\ UNCHANGED gwLog
       ELSE IF ~participant THEN
            /\ rq' = Answered("delete", allowed, 403)
            /\ UNCHANGED gwLog
       ELSE
            /\ gwLog' = gwLog \cup {GatewayCall("cancel_item", FALSE, allowed)}
            /\ rq' = Answered("delete", allowed, 200)
    /\ RouteFrame

RouteInit ==
    /\ SFInitVars /\ clock = 0 /\ CacheInitVars /\ MonoIdle /\ ReadIdle /\ OverlayIdle
    /\ MergeIdle /\ RouteIdle /\ MutationIdle /\ EditIdle /\ RecentIdle /\ PolicyIdle
    /\ UserReadIdle

RouteNext ==
    \/ \E validRange, roomKnown, userKnown, allowed \in BOOLEAN :
         \E outcome \in {"ok", "declined", "missing"} :
            CreateBookingRoute(validRange, roomKnown, userKnown, allowed, outcome)
    \/ \E found, participant, roomKnown, userKnown, allowed, confirmed \in BOOLEAN :
            UpdateBookingRoute(found, participant, roomKnown, userKnown, allowed, confirmed)
    \/ \E found, participant, allowed \in BOOLEAN :
            DeleteBookingRoute(found, participant, allowed)

SpecRoutes == RouteInit /\ [][RouteNext]_vars

\* C13: no create_item, update_item or cancel_item call is issued for a request
\* unless can_book returns allow for that request's user, room and interval.
C13_PolicyGate ==
    \A g \in gwLog : g.allowed

-----------------------------------------------------------------------------
(* The fetch of one source: failures and cache hits *)

\* C14: when the gateway call a fetch awaits has failed, the fetch that
\* resumes from it adds no slot to the cache and changes none, records no
\* write for the call, and ends with the error (with CancelledError when the
\* fetch itself was cancelled meanwhile), never with bookings.
C14_FailedCallLeavesCache ==
    [][\A c \in Callers :
          (pc[c] = "awaiting" /\ pc'[c] # "awaiting" /\ tstatus[ctask[c]] = "failed") =>
              /\ cache' = cache
              /\ nputs' = nputs
              /\ ~written'[ctask[c]]
              /\ cout'[c] = cout[c]
              /\ pc'[c] = IF mustCancel[c] THEN "cancelled" ELSE "raised"]_vars

\* C14 witness: two fetches awaited one gateway call, the call failed, both
\* fetches ended with the error and the cache is still empty.
C14_Witness ==
    /\ pc[1] = "raised" /\ pc[2] = "raised"
    /\ ctask[1] = 1 /\ ctask[2] = 1 /\ created[1] /\ ~created[2]
    /\ tstatus[1] = "failed"
    /\ \A r \in Rooms : cache[r] = <<>>
    /\ nputs = 0 /\ ~written[1]

\* Every room of the set has a slot in the cache c that was written less than
\* ttl_sec before now and contains [start, end].
AllRoomsCached(c, rooms, start, end, now) ==
    \A r \in rooms :
        \E i \in 1..Len(c[r]) :
            /\ c[r][i].timestamp + TtlSec > now
            /\ c[r][i].start <= start /\ c[r][i].end >= end

\* C15: a fetch of one source that finds, for every requested room, an
\* unexpired slot containing the window returns from the cache and issues no
\* gateway call (no task is created and SingleFlight is not entered); a
\* fetch issues a gateway call only when some requested room misses, and a
\* fetch with a miss goes on to SingleFlight.
C15_FullHitIssuesNoCall ==
    [][\A c \in Callers :
          (pc[c] = "idle" /\ pc'[c] # "idle") =>
              LET full == AllRoomsCached(cache, crooms'[c], cwin'[c][1], cwin'[c][2], Now)
              IN  /\ full => /\ pc'[c] = "returned" /\ chit'[c]
                             /\ ~created'[c]
                             /\ tstatus' = tstatus
                             /\ sfPairs' = sfPairs
                  /\ created'[c] => ~full
                  /\ ~full => pc'[c] = "awaiting" /\ ~chit'[c]]_vars

\* C15 witness: the first fetch missed, issued the gateway call and wrote the
\* cache; the second fetch of the same rooms and window was then served from
\* the cache and no second task exists.
C15_Witness ==
    /\ pc[1] = "returned" /\ created[1] /\ written[1] /\ ~chit[1]
    /\ pc[2] = "returned" /\ chit[2] /\ ~created[2]
    /\ crooms[2] = {"r1", "r2"} /\ crooms[1] = crooms[2]
    /\ tstatus[2] = "none" /\ ctask[2] = 0

-----------------------------------------------------------------------------
(* The merge of the two sources, on its own *)

\* Longest booking list a source hands to the merge.
MaxMergeLen == 2

\* Bookings of the calendar view (with item ids; two of them under one key)
\* and of free/busy (anonymous).
CalendarViewPool == {Bk("r1", 0, 1, 1), Bk("r1", 0, 1, 2), Bk("r1", 1, 2, 1)}
FreeBusyPool == {Bk("r1", 0, 1, 0), Bk("r1", 1, 2, 0), Bk("r2", 0, 1, 0)}

SeqsUpTo(S, n) == UNION {[1..k -> S] : k \in 0..n}

MergeFrame ==
    UNCHANGED <<sfVars, clock, cacheVars, monoVars, readVars, overlayVars, rq, gwLog,
                op, item, editVars, recentVars, pol, ur>>

\* Lines 364-395 applied to the two booking lists, the key set iterated in
\* the given order.
Merge ==
    /\ mg.st = "called"
    /\ mg' = [mg EXCEPT !.st = "done",
                        !.out = MergeSources(mg.ac, mg.bi, mg.order, 1)]
    /\ MergeFrame

\* The merge is called with any two booking lists.
MergeInit ==
    /\ SFInitVars /\ clock = 0 /\ CacheInitVars /\ MonoIdle /\ ReadIdle /\ OverlayIdle
    /\ RouteIdle /\ MutationIdle /\ EditIdle /\ RecentIdle /\ PolicyIdle
    /\ UserReadIdle
    /\ \E ac \in SeqsUpTo(CalendarViewPool, MaxMergeLen),
          bi \in SeqsUpTo(FreeBusyPool, MaxMergeLen) :
           \E order \in Orders(KeysIn(ac) \cup KeysIn(bi)) :
               mg = [st |-> "called", ac |-> ac, bi |-> bi, order |-> order, out |-> <<>>]

MergeNext == Merge

SpecMerge == MergeInit /\ [][MergeNext]_vars

\* C16: for every key of either source the merged list holds, under that
\* key, the single entry when the two sides together have one; otherwise the
\* first calendar-view entry alone when the calendar view has any; otherwise
\* all free/busy entries. The merged list holds no other key.
C16_SourceReconciliation ==
    mg.st = "done" =>
        /\ \A k \in KeysIn(mg.ac) \cup KeysIn(mg.bi) :
              LET a == ForKey(mg.ac, k)
                  f == ForKey(mg.bi, k)
                  o == ForKey(mg.out, k)
              IN  /\ Len(a) + Len(f) = 1 => o = a \o f
                  /\ (Len(a) + Len(f) # 1 /\ Len(a) > 0) => o = <<a[1]>>
                  /\ (Len(a) + Len(f) # 1 /\ Len(a) = 0) => o = f
        /\ KeysIn(mg.out) \subseteq KeysIn(mg.ac) \cup KeysIn(mg.bi)

\* C16 witness: one key with two calendar-view entries and a free/busy
\* entry keeps the first calendar-view entry only; a key known to free/busy
\* alone keeps its entry.
C16_Witness ==
    /\ mg.st = "done"
    /\ mg.ac = <<Bk("r1", 0, 1, 2), Bk("r1", 0, 1, 1)>>
    /\ mg.bi = <<Bk("r1", 0, 1, 0), Bk("r2", 0, 1, 0)>>
    /\ Len(mg.out) = 2
    /\ \E i \in 1..2 : mg.out[i] = Bk("r1", 0, 1, 2)
    /\ \E i \in 1..2 : mg.out[i] = Bk("r2", 0, 1, 0)

-----------------------------------------------------------------------------
(* cancel_booking: the recently-canceled check, then SingleFlight keyed by  *)
(* the item id around the gateway's cancel and mark_canceled                *)

CancelCall(id, t) == [call |-> "cancel_item", id |-> id, task |-> t]

\* What the task steps of cancel_booking leave alone.
CancelFrame ==
    UNCHANGED <<cacheVars, monoVars, readVars, recCreated, recUpdated, rd, createdAt,
                cancelAsked, mg, rq, op, item, editVars, recentVars, pol, ur>>

\* cancel_booking up to its first suspension: is_canceled (which prunes), and
\* when the id is not recently canceled SingleFlight.run up to `await task`.
CancelStart(c, id) ==
    /\ pc[c] = "idle"
    /\ \A d \in Callers : d < c => pc[d] # "idle"
    /\ recCanceled' = Prune(recCanceled, Now)
    /\ ckey' = [ckey EXCEPT ![c] = id]
    /\ IF IsMarked(recCanceled, id, Now)
       THEN /\ pc' = [pc EXCEPT ![c] = "returned"]
            /\ UNCHANGED <<sfPairs, tstatus, tkey, ctask, sawTask, sawDone, created>>
       ELSE LET r == RunRegister(sfPairs, id, TRUE, c)
            IN  /\ pc' = [pc EXCEPT ![c] = "awaiting"]
                /\ sfPairs' = r.pairs
                /\ ctask' = [ctask EXCEPT ![c] = r.task]
                /\ created' = [created EXCEPT ![c] = r.made]
                /\ sawTask' = [sawTask EXCEPT ![c] = r.existing]
                /\ sawDone' = [sawDone EXCEPT ![c] =
                                  r.existing # 0 /\ TaskDone(r.existing)]
                /\ tstatus' = IF r.made THEN [tstatus EXCEPT ![c] = "running"]
                              ELSE tstatus
                /\ tkey' = IF r.made THEN [tkey EXCEPT ![c] = id] ELSE tkey
    /\ UNCHANGED <<tval, cval, cdedup, mustCancel, clock, gwLog>>
    /\ CancelFrame

\* cancel_task runs to its end: item.cancel in a thread, mark_canceled, True.
CancelTaskDone(t) ==
    /\ tstatus[t] = "running"
    /\ tstatus' = [tstatus EXCEPT ![t] = "ok"]
    /\ gwLog' = gwLog \cup {CancelCall(tkey[t], t)}
    /\ recCanceled' = Mark(recCanceled, tkey[t], NoBooking, Now)
    /\ UNCHANGED <<sfPairs, tkey, tval, pc, ckey, cdedup, ctask, cval, mustCancel,
                   sawTask, sawDone, created, clock>>
    /\ CancelFrame

\* item.cancel raises: the task fails before mark_canceled.
CancelTaskFail(t) ==
    /\ tstatus[t] = "running"
    /\ tstatus' = [tstatus EXCEPT ![t] = "failed"]
    /\ gwLog' = gwLog \cup {CancelCall(tkey[t], t)}
    /\ UNCHANGED <<sfPairs, tkey, tval, pc, ckey, cdedup, ctask, cval, mustCancel,
                   sawTask, sawDone, created, clock, recCanceled>>
    /\ CancelFrame

\* The task is cancelled: before its first step (item.cancel never starts) or
\* while it awaits the thread (item.cancel runs on, mark_canceled is skipped).
CancelTaskCancelled(t, threadStarted) ==
    /\ tstatus[t] = "cancelling"
    /\ tstatus' = [tstatus EXCEPT ![t] = "cancelled"]
    /\ gwLog' = IF threadStarted THEN gwLog \cup {CancelCall(tkey[t], t)} ELSE gwLog
    /\ UNCHANGED <<sfPairs, tkey, tval, pc, ckey, cdedup, ctask, cval, mustCancel,
                   sawTask, sawDone, created, clock, recCanceled>>
    /\ CancelFrame

CancelInit ==
    /\ SFInitVars /\ clock = 0 /\ CacheInitVars /\ MonoIdle /\ ReadIdle /\ OverlayIdle
    /\ MergeIdle /\ RouteIdle /\ MutationIdle /\ EditIdle /\ RecentIdle /\ PolicyIdle
    /\ UserReadIdle

CancelNext ==
    \/ \E c \in Callers, id \in Ids : CancelStart(c, id)
    \/ \E t \in Tasks : CancelTaskDone(t)
    \/ \E t \in Tasks : CancelTaskFail(t)
    \/ \E t \in Tasks, threadStarted \in BOOLEAN : CancelTaskCancelled(t, threadStarted)
    \/ \E c \in Callers : CancelCaller(c)
    \/ \E c \in Callers : Resume(c)
    \/ Tick

SpecCancel == CancelInit /\ [][CancelNext]_vars

\* C17: a cancel request that arrives while a cancel of the same id is in
\* flight issues no gateway call of its own, and once it has ended it has
\* returned true (unless it was itself cancelled or the gateway call failed).
C17_CancelDedup ==
    \A d \in Callers :
        (pc[d] \notin {"idle", "awaiting"} /\ sawTask[d] # 0 /\ ~sawDone[d]) =>
            /\ ~created[d]
            /\ (~mustCancel[d] /\ tstatus[ctask[d]] # "failed") => pc[d] = "returned"

\* A cancel task of the id is registered and not done.
CancelInFlight(id) ==
    Registered(sfPairs, id) # 0 /\ ~TaskDone(Registered(sfPairs, id))

\* C39, in a state: an id is in the recently-canceled table only if a
\* cancel_item call for it completed successfully; a request that awaited a
\* cancel whose cancel_item failed, and was not itself cancelled, has raised.
C39_State ==
    /\ \A id \in IdsOf(recCanceled) :
           \E t \in Tasks : /\ tstatus[t] = "ok" /\ tkey[t] = id
                            /\ CancelCall(id, t) \in gwLog
    /\ \A c \in Callers :
           (pc[c] \notin {"idle", "awaiting"} /\ ctask[c] # 0
                 /\ tstatus[ctask[c]] = "failed" /\ ~mustCancel[c]) =>
               pc[c] = "raised"

\* C39, in a step: a failing cancel_item leaves the table as it is, and a
\* cancel request for an id whose earlier cancel_item failed, arriving when
\* the id is not recently canceled and no cancel of it is in flight, starts a
\* task of its own.
C39_Step ==
    /\ \A t \in Tasks :
           (tstatus[t] = "running" /\ tstatus'[t] = "failed") =>
               recCanceled' = recCanceled
    /\ \A d \in Callers, id \in Ids :
           (pc[d] = "idle" /\ pc'[d] # "idle" /\ ckey'[d] = id
                 /\ (\E t \in Tasks : tstatus[t] = "failed" /\ tkey[t] = id)
                 /\ ~IsMarked(recCanceled, id, Now) /\ ~CancelInFlight(id)) =>
               /\ pc'[d] = "awaiting" /\ created'[d]
               /\ tstatus'[ctask'[d]] = "running" /\ tkey'[ctask'[d]] = id

\* C39: an id is recently canceled only after a successful cancel_item; a
\* failed cancel_item raises in the requests awaiting it, marks nothing, and
\* a later request for the id makes a new gateway call (every task that ran
\* to its end made one).
C39_FailedCancelNotMarked ==
    /\ [](C39_State
            /\ \A t \in Tasks :
                   tstatus[t] \in {"ok", "failed"} =>
                       CancelCall(tkey[t], t) \in gwLog)
    /\ [][C39_Step]_vars

\* C39 witness: the cancel_item of request 1 failed and request 1 raised;
\* request 2, for the same id, came later, made its own call and marked the
\* id.
C39_Witness ==
    /\ tstatus[1] = "failed" /\ pc[1] = "raised"
    /\ tstatus[2] = "ok" /\ pc[2] = "returned"
    /\ ckey[2] = ckey[1] /\ created[2] /\ sawDone[2]
    /\ CancelCall(ckey[1], 1) \in gwLog /\ CancelCall(ckey[1], 2) \in gwLog
    /\ ckey[1] \in IdsOf(recCanceled)

-----------------------------------------------------------------------------
(* create_booking and update_booking: the save and the confirmation polls   *)

\* tries (create_booking line 527, update_booking line 601)
Tries == 10
\* How many times the room attendee answers in one behaviour.
MaxResponses == 2

Responses == {"Accept", "Tentative", "Decline"}

\* The calendar item right after item.save: the room is an attendee that has
\* not answered (last_response_time None is 0).
SavedItem == [exists |-> TRUE, room |-> TRUE, response |-> "Unknown", lrt |-> 0]

Op(st, kind, id, polls, old, declined, result, before) ==
    [st |-> st, kind |-> kind, id |-> id, polls |-> polls, old |-> old,
     declined |-> declined, result |-> result, before |-> before]

OpOver == op.st \in {"idle", "returned", "raised"}

\* What create_booking and update_booking leave alone.
MutationFrame ==
    UNCHANGED <<sfVars, cacheVars, monoVars, readVars, rd, createdAt, cancelAsked,
                mg, rq, editVars, recentVars, pol, ur>>

\* create_booking up to the first poll: item.save, which may raise.
CreateSave(id, saved) ==
    /\ op.st = "idle"
    /\ IF saved
       THEN /\ item' = SavedItem
            /\ op' = Op("polling", "create", id, 0, 0, FALSE, "none", recUpdated)
       ELSE /\ op' = Op("raised", "create", id, 0, 0, FALSE, "error", recUpdated)
            /\ UNCHANGED item
    /\ UNCHANGED <<recCanceled, recCreated, recUpdated, gwLog, clock>>
    /\ MutationFrame

\* Mutant: the loop makes one pass more.
LoopContinues_OneMore(polls) == polls <= Tries

\* for _ in range(tries): polls is the number of get_booking calls made.
LoopContinues(polls) == polls < Tries

\* Mutant: only a missing room attendee stops the polls.
RoomRefused_OnlyMissing(it) == ~it.room

\* Line 541: the room is not among the attendees or has declined.
RoomRefused(it) == ~it.room \/ it.response = "Decline"

\* The poll fetched the item and the room attendee's response is Decline.
SawDecline == item.exists /\ item.room /\ item.response = "Decline"

\* One pass of the loop of create_booking (lines 529-551), from get_booking
\* to the sleep, or to the await of cancel_booking's task.
CreatePoll ==
    /\ op.st = "polling" /\ op.kind = "create" /\ LoopContinues(op.polls)
    /\ IF ~item.exists
       THEN /\ op' = [op EXCEPT !.polls = op.polls + 1, !.st = "raised",
                                !.result = IF IsMarked(recCanceled, op.id, Now)
                                           THEN "403" ELSE "404"]
            /\ recCanceled' = Prune(recCanceled, Now)
            /\ UNCHANGED recCreated
       ELSE IF RoomRefused(item)
       THEN /\ op' = IF IsMarked(recCanceled, op.id, Now)
                     THEN [op EXCEPT !.polls = op.polls + 1, !.st = "raised",
                                     !.declined = SawDecline, !.result = "403"]
                     ELSE [op EXCEPT !.polls = op.polls + 1, !.st = "cancelling",
                                     !.declined = SawDecline]
            /\ recCanceled' = Prune(recCanceled, Now)
            /\ UNCHANGED recCreated
       ELSE IF item.lrt # 0
       THEN /\ op' = [op EXCEPT !.polls = op.polls + 1, !.st = "returned",
                                !.result = "booking", !.declined = SawDecline]
            /\ recCreated' = Mark(recCreated, op.id, CreatedBooking(op.id), Now)
            /\ UNCHANGED recCanceled
       ELSE /\ op' = [op EXCEPT !.polls = op.polls + 1]
            /\ UNCHANGED <<recCanceled, recCreated>>
    /\ UNCHANGED <<recUpdated, gwLog, item, clock>>
    /\ MutationFrame

\* The cancel task of cancel_booking, awaited by create_booking, ends: the
\* item is cancelled and marked, and create raises 403 (line 543); or
\* item.cancel raises and the error leaves create_booking.
CreateCancelEnds(ok) ==
    /\ op.st = "cancelling"
    /\ gwLog' = gwLog \cup {CancelCall(op.id, 0)}
    /\ IF ok
       THEN /\ recCanceled' = Mark(recCanceled, op.id, NoBooking, Now)
            /\ item' = [item EXCEPT !.exists = FALSE]
            /\ op' = [op EXCEPT !.st = "raised", !.result = "403"]
       ELSE /\ op' = [op EXCEPT !.st = "raised", !.result = "error"]
            /\ UNCHANGED <<recCanceled, item>>
    /\ UNCHANGED <<recCreated, recUpdated, clock>>
    /\ MutationFrame

\* After the tenth poll and its sleep (lines 553-556).
CreateTimeout ==
    /\ op.st = "polling" /\ op.kind = "create" /\ op.polls = Tries
    /\ op' = [op EXCEPT !.st = "returned", !.result = "booking"]
    /\ recCreated' = Mark(recCreated, op.id, CreatedBooking(op.id), Now)
    /\ UNCHANGED <<recCanceled, recUpdated, gwLog, item, clock>>
    /\ MutationFrame

\* update_booking up to the first poll: get_booking, the room attendee's
\* last_response_time before the save (-1: no room attendee), the save.
UpdateStart(id) ==
    /\ OpOver /\ op.st # "idle"
    /\ op.id = id
    /\ IF ~item.exists
       THEN op' = Op("returned", "update", id, 0, 0, FALSE, "null", recUpdated)
       ELSE op' = Op("polling", "update", id, 0, IF item.room THEN item.lrt ELSE -1,
                     FALSE, "none", recUpdated)
    /\ UNCHANGED <<recCanceled, recCreated, recUpdated, gwLog, item, clock>>
    /\ MutationFrame

\* Mutant: any answer of the room counts, as in create_booking.
ResponseChanged_Answered(it, old) == it.lrt # 0

\* Line 611: the room attendee's last_response_time differs from the one
\* read before the save.
ResponseChanged(it, old) == it.lrt # old

\* One pass of the loop of update_booking (lines 602-615); the return after
\* the loop follows the tenth pass at once.
UpdatePoll ==
    /\ op.st = "polling" /\ op.kind = "update" /\ LoopContinues(op.polls)
    /\ IF ~item.exists
       THEN /\ op' = IF op.polls + 1 = Tries
                     THEN [op EXCEPT !.polls = Tries, !.st = "returned", !.result = "null"]
                     ELSE [op EXCEPT !.polls = op.polls + 1]
            /\ UNCHANGED recUpdated
       ELSE IF ~item.room \/ op.old = -1
       THEN /\ op' = [op EXCEPT !.polls = op.polls + 1, !.st = "raised",
                                !.result = "error"]
            /\ UNCHANGED recUpdated
       ELSE IF ResponseChanged(item, op.old)
       THEN /\ op' = [op EXCEPT !.polls = op.polls + 1, !.st = "returned",
                                !.result = "booking"]
            /\ recUpdated' = Mark(recUpdated, op.id, UpdatedBooking(op.id), Now)
       ELSE /\ op' = IF op.polls + 1 = Tries
                     THEN [op EXCEPT !.polls = Tries, !.st = "returned", !.result = "null"]
                     ELSE [op EXCEPT !.polls = op.polls + 1]
            /\ UNCHANGED recUpdated
    /\ UNCHANGED <<recCanceled, recCreated, gwLog, item, clock>>
    /\ MutationFrame

\* The room's mailbox answers the invitation.
RoomResponds(resp) ==
    /\ op.st = "polling"
    /\ item.exists /\ item.room
    /\ item.lrt < MaxResponses
    /\ item' = [item EXCEPT !.response = resp, !.lrt = item.lrt + 1]
    /\ UNCHANGED <<op, recCanceled, recCreated, recUpdated, gwLog, clock>>
    /\ MutationFrame

\* Someone edits the item in the calendar: the room is dropped from the
\* attendees, or the item is deleted.
ItemEdited(dropRoom) ==
    /\ op.st = "polling"
    /\ item.exists
    /\ IF dropRoom THEN item.room ELSE TRUE
    /\ item' = IF dropRoom THEN [item EXCEPT !.room = FALSE]
               ELSE [item EXCEPT !.exists = FALSE]
    /\ UNCHANGED <<op, recCanceled, recCreated, recUpdated, gwLog, clock>>
    /\ MutationFrame

MutationInit ==
    /\ SFInitVars /\ clock = 0 /\ CacheInitVars /\ MonoIdle /\ ReadIdle /\ OverlayIdle
    /\ MergeIdle /\ RouteIdle /\ MutationIdle /\ EditIdle /\ RecentIdle /\ PolicyIdle
    /\ UserReadIdle

MutationNext ==
    \/ \E id \in Ids, saved \in BOOLEAN : CreateSave(id, saved)
    \/ CreatePoll
    \/ \E ok \in BOOLEAN : CreateCancelEnds(ok)
    \/ CreateTimeout
    \/ \E id \in Ids : UpdateStart(id)
    \/ UpdatePoll
    \/ \E resp \in Responses : RoomResponds(resp)
    \/ \E dropRoom \in BOOLEAN : ItemEdited(dropRoom)
    \/ Tick

SpecMutation == MutationInit /\ [][MutationNext]_vars

-----------------------------------------------------------------------------
(* create_booking and update_booking: claims *)

CreateOver == op.st \in {"returned", "raised"} /\ op.kind = "create"

\* C18 (as claimed): when a poll of create finds the room's response is
\* Decline, create issues a cancel for the item, the id is recently
\* canceled, create fails with 403 and the id is not marked recently created.
C18_DeclineCancelsAndFails403 ==
    (CreateOver /\ op.declined) =>
        /\ CancelCall(op.id, 0) \in gwLog
        /\ op.id \in IdsOf(recCanceled)
        /\ op.st = "raised" /\ op.result = "403"
        /\ op.id \notin IdsOf(recCreated)

\* C18 (amended): when a poll of create finds the room's response is
\* Decline, create issues a cancel for the item, does not return a booking
\* and does not mark the id recently created; when the cancel succeeds the id
\* is recently canceled and create fails with 403, and when the gateway's
\* cancel fails create fails with that error and the id is not recently
\* canceled.
C18_DeclineCancelOutcome ==
    (CreateOver /\ op.declined) =>
        /\ CancelCall(op.id, 0) \in gwLog
        /\ op.st = "raised" /\ op.result \in {"403", "error"}
        /\ op.result = "403" <=> op.id \in IdsOf(recCanceled)
        /\ op.result = "403" <=> ~item.exists
        /\ op.id \notin IdsOf(recCreated)

\* C18 witness: the room declined, the poll saw it, the item was cancelled
\* and create failed with 403.
C18_Witness ==
    /\ CreateOver /\ op.declined
    /\ item.response = "Decline" /\ item.lrt = 1 /\ ~item.exists
    /\ op.result = "403" /\ op.id = 1
    /\ IdsOf(recCanceled) = {1} /\ recCreated = <<>>
    /\ gwLog = {CancelCall(1, 0)}

\* C19: at the step at which create returns a booking, after a poll that saw
\* a last_response_time of the room or after all the polls, the booking is in
\* the recently-created table under its id, marked at that moment.
C19_ReturnedCreateIsMarked ==
    [][(op.st = "polling" /\ op.kind = "create" /\ op'.st = "returned") =>
          /\ op'.result = "booking"
          /\ IsMarked(recCreated', op.id, Now)
          /\ EntryOf(recCreated', op.id) =
                 [id |-> op.id, ts |-> Now, b |-> CreatedBooking(op.id)]
          /\ (item.lrt # 0 \/ op.polls = Tries)]_vars

\* C19 witness: the room never answered, all the polls ran, and create
\* returned the booking with its id recently created.
C19_Witness ==
    /\ CreateOver /\ op.st = "returned" /\ op.polls = Tries
    /\ item.exists /\ item.lrt = 0
    /\ op.id \in IdsOf(recCreated)

UpdateOver == op.st \in {"returned", "raised"} /\ op.kind = "update"

-----------------------------------------------------------------------------
(* create_booking and update_booking: termination *)

\* The event loop resumes each coroutine once its sleep is over or its
\* gateway call has returned.
MutationFairness ==
    /\ WF_vars(CreatePoll)
    /\ WF_vars(\E ok \in BOOLEAN : CreateCancelEnds(ok))
    /\ WF_vars(CreateTimeout)
    /\ WF_vars(UpdatePoll)

SpecMutationLive == MutationInit /\ [][MutationNext]_vars /\ MutationFairness

OpRunning == op.st \in {"polling", "cancelling"}

\* C21: create and update each make at most 10 get_booking polls after the
\* save, and a create or update that has started always ends: it returns or
\* raises.
C21_BoundedConfirmation ==
    /\ [](op.st # "idle" => op.polls <= Tries)
    /\ (OpRunning ~> OpOver)

\* C21 witness: an update saw the room's answer change in its tenth poll and
\* returned.
C21_Witness ==
    /\ UpdateOver /\ op.st = "returned" /\ op.result = "booking"
    /\ op.polls = Tries

-----------------------------------------------------------------------------
(* SingleFlight: tasks in flight, keys in parallel *)

\* The tasks created through run(k, ...) that have not completed.
InFlight(k) == {t \in TasksOf(k) : ~TaskDone(t)}

-----------------------------------------------------------------------------
(* CacheForBookings: the slot cap and pruning on get *)

\* How many times x occurs in the list.
Count(seq, x) == Cardinality({i \in 1..Len(seq) : seq[i] = x})
Elems(seq) == {seq[i] : i \in 1..Len(seq)}

\* The slot a put of the room has just stored.
PutSlot(put) ==
    [bookings |-> put.bookings, start |-> put.start, end |-> put.end,
     timestamp |-> put.now]

\* C24: after update_cache or update_cache_from_mapping every room written
\* holds at most max_slots_per_room slots, the slot just inserted is one of
\* them (the last), the slots kept are slots the room held unexpired or the
\* new one, and every slot dropped for the cap has a timestamp no larger than
\* that of any slot kept.
C24_SlotCap ==
    [][\A r \in Rooms :
          (cres'.op = "put" /\ r \in cres'.rooms) =>
              LET slot == PutSlot(lastPut'[r])
                  all == SelectSeq(Append(cache[r], slot),
                                   LAMBDA sl : sl.timestamp + TtlSec > clock)
                  kept == cache'[r]
              IN  /\ Len(kept) <= MaxSlotsPerRoom
                  /\ Len(kept) = IF Len(all) <= MaxSlotsPerRoom THEN Len(all)
                                 ELSE MaxSlotsPerRoom
                  /\ kept[Len(kept)] = slot /\ slot.timestamp = clock
                  /\ \A x \in Elems(kept) : Count(kept, x) <= Count(all, x)
                  /\ \A x \in Elems(all) :
                         Count(kept, x) < Count(all, x) =>
                             \A q \in Elems(kept) : x.timestamp <= q.timestamp]_vars

\* C24 witness: a room that held two unexpired slots written at time 0 was
\* written at time 1 and holds the new slot and one of the old ones.
C24_Witness ==
    /\ cres.op = "put" /\ "r1" \in cres.rooms
    /\ clock = 1 /\ nputs = MaxPuts
    /\ Len(cache["r1"]) = MaxSlotsPerRoom
    /\ cache["r1"][1].timestamp = 0
    /\ cache["r1"][MaxSlotsPerRoom] = PutSlot(lastPut["r1"])
    /\ lastPut["r1"].now = 1

\* C25: after get_cached_entry or get_cached_bookings returns, hit or miss,
\* the cache stores no slot of a room asked for whose timestamp + ttl_sec is
\* at or before the time of the call.
C25_GetPrunesExpired ==
    cres.op \in {"get", "multi"} =>
        \A r \in cres.rooms :
            \A i \in 1..Len(cache[r]) : cache[r][i].timestamp + TtlSec > cres.now

-----------------------------------------------------------------------------
(* CacheForBookings under its lock: update_cache_from_mapping room by room, *)
(* add_booking_to_cache and remove_booking_from_cache                       *)

\* The bookings added to and removed from the cache: with an id, without
\* one under the same (room, start, end), the same id in another room.
EditPool == {Bk("r1", 0, 1, 1), Bk("r1", 0, 1, 0), Bk("r2", 0, 1, 1)}
MaxEdits == 2
MaxPutManys == 2
EditWindows == {<<0, 2>>, <<0, 1>>}

\* The match both functions use: by outlook_booking_id when the booking has
\* one, else by (room_id, start, end).
SameBooking(b, x) ==
    IF b.oid # 0 THEN x.oid = b.oid
    ELSE x.room_id = b.room_id /\ x.start = b.start /\ x.end = b.end

Copies(bookings, b) ==
    Cardinality({i \in 1..Len(bookings) : SameBooking(b, bookings[i])})

RECURSIVE InsertByStart(_, _)
\* list.sort(key=start): stable.
InsertByStart(sorted, x) ==
    IF sorted = <<>> THEN <<x>>
    ELSE IF sorted[Len(sorted)].start <= x.start THEN Append(sorted, x)
    ELSE Append(InsertByStart(SubSeq(sorted, 1, Len(sorted) - 1), x),
                sorted[Len(sorted)])

RECURSIVE SortByStart(_)
SortByStart(bs) ==
    IF bs = <<>> THEN <<>>
    ELSE InsertByStart(SortByStart(SubSeq(bs, 1, Len(bs) - 1)), bs[Len(bs)])

\* Mutant: the booking is appended without the duplicate test.
AddToSlot_NoDuplicateTest(slot, b) ==
    IF slot.start < b.end /\ b.start < slot.end
    THEN [slot EXCEPT !.bookings = SortByStart(Append(@, b))]
    ELSE slot

\* Lines 171-188, for one slot.
AddToSlot(slot, b) ==
    IF slot.start < b.end /\ b.start < slot.end /\ Copies(slot.bookings, b) = 0
    THEN [slot EXCEPT !.bookings = SortByStart(Append(@, b))]
    ELSE slot

\* add_booking_to_cache on the cache map c.
AddBookingImpl(c, b) ==
    [c EXCEPT ![b.room_id] = [i \in 1..Len(@) |-> AddToSlot(@[i], b)]]

RemoveFromSlot(slot, b) ==
    [slot EXCEPT !.bookings = SelectSeq(@, LAMBDA x : ~SameBooking(b, x))]

\* Mutant: a booking with an id is removed from the slots of its room only.
RemoveBookingImpl_OwnRoomOnly(c, b) ==
    [c EXCEPT ![b.room_id] = [i \in 1..Len(@) |-> RemoveFromSlot(@[i], b)]]

\* remove_booking_from_cache on the cache map c.
RemoveBookingImpl(c, b) ==
    IF b.oid # 0
    THEN [r \in Rooms |-> [i \in 1..Len(c[r]) |-> RemoveFromSlot(c[r][i], b)]]
    ELSE [c EXCEPT ![b.room_id] = [i \in 1..Len(@) |-> RemoveFromSlot(@[i], b)]]

\* Mutant: the other methods do not take the lock.
LockHeld_Ignored == FALSE

\* self._lock is held: an update_cache_from_mapping call is inside its
\* `async with self._lock` block.
LockHeld == pm.st = "held"

\* The rooms with a slot that holds a booking matching b.
RoomsHolding(c, b) ==
    {r \in Rooms : \E i \in 1..Len(c[r]) : Copies(c[r][i].bookings, b) > 0}

\* The last edit is no longer the last write to the cache.
Stale(e) == IF e.op = "none" THEN e ELSE [e EXCEPT !.fresh = FALSE]

EditFrame ==
    UNCHANGED <<sfVars, monoVars, readVars, overlayVars, mg, rq, gwLog, op, item,
                recentVars, pol, ur>>

\* update_cache_from_mapping takes the lock (now was read before).
PutManyBegin(rooms, w) ==
    /\ pm.st = "idle"
    /\ nputs < MaxPutManys
    /\ nputs' = nputs + 1
    /\ pm' = [st |-> "held", rooms |-> rooms, todo |-> rooms, w |-> w, now |-> Now]
    /\ UNCHANGED <<cache, cres, lastPut, clock, ed>>
    /\ EditFrame

\* One pass of its loop: _update_cache_impl for the next room of the mapping.
PutManyStep(r) ==
    /\ pm.st = "held" /\ r \in pm.todo
    /\ cache' = UpdateCacheImpl(cache, r, Fetched(r, pm.w, pm.now), pm.w[1], pm.w[2],
                                pm.now)
    /\ lastPut' = [lastPut EXCEPT ![r] =
                      [start |-> pm.w[1], end |-> pm.w[2], now |-> pm.now,
                       bookings |-> Fetched(r, pm.w, pm.now)]]
    /\ pm' = [pm EXCEPT !.todo = @ \ {r}]
    /\ cres' = [NoRes EXCEPT !.op = "put", !.rooms = {r}]
    /\ ed' = Stale(ed)
    /\ UNCHANGED <<nputs, clock>>
    /\ EditFrame

\* The loop is over: the lock is released.
PutManyEnd ==
    /\ pm.st = "held" /\ pm.todo = {}
    /\ pm' = NoPutMany
    /\ UNCHANGED <<cache, cres, lastPut, nputs, clock, ed>>
    /\ EditFrame

\* get_cached_entry and get_cached_bookings, which wait for the lock.
LockedGetCachedEntry(room, w) == ~LockHeld /\ GetCachedEntry(room, w)
LockedGetCachedBookings(rooms, w) == ~LockHeld /\ GetCachedBookingsOp(rooms, w)

\* add_booking_to_cache(booking)
AddBooking(b) ==
    /\ ~LockHeld
    /\ ed.n < MaxEdits
    /\ cache' = AddBookingImpl(cache, b)
    /\ ed' = [op |-> "add", b |-> b, n |-> ed.n + 1, fresh |-> TRUE,
              single |-> \A i \in 1..Len(cache[b.room_id]) :
                            Copies(cache[b.room_id][i].bookings, b) <= 1,
              times |-> IF ed.op = "add" /\ ed.b = b /\ ed.fresh THEN 2 ELSE 1]
    /\ cres' = NoRes
    /\ UNCHANGED <<lastPut, nputs, clock, pm>>
    /\ EditFrame

\* remove_booking_from_cache(booking)
RemoveBooking(b) ==
    /\ ~LockHeld
    /\ ed.n < MaxEdits
    /\ cache' = RemoveBookingImpl(cache, b)
    /\ ed' = [op |-> "remove", b |-> b, n |-> ed.n + 1, fresh |-> TRUE,
              held |-> RoomsHolding(cache, b)]
    /\ cres' = NoRes
    /\ UNCHANGED <<lastPut, nputs, clock, pm>>
    /\ EditFrame

EditInit ==
    /\ SFInitVars /\ clock = 0 /\ CacheInitVars /\ MonoIdle /\ ReadIdle /\ OverlayIdle
    /\ MergeIdle /\ RouteIdle /\ MutationIdle /\ EditIdle /\ RecentIdle /\ PolicyIdle
    /\ UserReadIdle

EditNext ==
    \/ \E w \in EditWindows : PutManyBegin(Rooms, w)
    \/ \E r \in Rooms : PutManyStep(r)
    \/ PutManyEnd
    \/ \E room \in Rooms, w \in EditWindows : LockedGetCachedEntry(room, w)
    \/ \E w \in EditWindows : LockedGetCachedBookings(Rooms, w)
    \/ \E b \in EditPool : AddBooking(b)
    \/ \E b \in EditPool : RemoveBooking(b)
    \/ Tick

SpecCacheEdit == EditInit /\ [][EditNext]_vars

\* The slot the running update_cache_from_mapping call stores for room r is
\* in the cache.
NewSlotIn(r) ==
    \E i \in 1..Len(cache[r]) :
        cache[r][i] = [bookings |-> Fetched(r, pm.w, pm.now), start |-> pm.w[1],
                       end |-> pm.w[2], timestamp |-> pm.now]

\* Some rooms of the running call have their new slot and others do not.
PartialPutMany ==
    /\ pm.st = "held"
    /\ \E r1, r2 \in pm.rooms : NewSlotIn(r1) /\ ~NewSlotIn(r2)

\* A get, get_multi, add_booking or remove_booking runs in this step.
ReaderStep ==
    \/ cres' # cres /\ cres'.op \in {"get", "multi"}
    \/ ed'.n # ed.n

\* C26: put_many is atomic: no get, get_multi, add_booking or remove_booking
\* runs on a cache in which some rooms of one put_many call have their new
\* slot and other rooms of the same call do not.
C26_PutManyAtomic == [][ReaderStep => ~PartialPutMany]_vars

\* A put_many call has stored the slot of one room and not yet of the other,
\* and every other method is waiting for the lock.
C26_Witness ==
    /\ PartialPutMany
    /\ \A b \in EditPool : ~ENABLED AddBooking(b) /\ ~ENABLED RemoveBooking(b)
    /\ ed.n < MaxEdits

\* A get of the room of the last added booking hit, with a window covering
\* the booking, and nothing was written to the cache since the add.
GetAfterAdd ==
    /\ ed.op = "add" /\ ed.fresh
    /\ cres.op = "get" /\ cres.hit /\ cres.rooms = {ed.b.room_id}
    /\ cres.start <= ed.b.start /\ ed.b.end <= cres.end

\* C27: add_booking is idempotent: after add_booking(b) is applied one or more
\* times, a get that hits for b.room_id with a window covering [b.start, b.end)
\* returns bookings in which b appears exactly once (by outlook id when set,
\* else by (room_id, start, end)), provided no slot held more than one copy
\* of b before.
C27_AddIdempotent ==
    (GetAfterAdd /\ ed.single) => Copies(cres.slot.bookings, ed.b) = 1

\* The same booking was added twice in a row next to a fetched one, and the
\* get returns both bookings.
C27_Witness ==
    /\ GetAfterAdd /\ ed.single /\ ed.times = 2
    /\ Len(cres.slot.bookings) = 2

\* C28: after remove_booking(b) no slot contains b: with an outlook id, no
\* slot of any room holds a booking with that id; without one, no slot of
\* b.room_id holds a booking with the same (room_id, start, end).
C28_RemoveLeavesNoCopy ==
    (ed.op = "remove" /\ ed.fresh) =>
        IF ed.b.oid # 0
        THEN \A r \in Rooms : \A i \in 1..Len(cache[r]) :
                 \A j \in 1..Len(cache[r][i].bookings) :
                     cache[r][i].bookings[j].oid # ed.b.oid
        ELSE \A i \in 1..Len(cache[ed.b.room_id]) :
                 \A j \in 1..Len(cache[ed.b.room_id][i].bookings) :
                     LET x == cache[ed.b.room_id][i].bookings[j]
                     IN  ~(x.room_id = ed.b.room_id /\ x.start = ed.b.start
                           /\ x.end = ed.b.end)

\* A booking with an outlook id was removed while slots of both rooms held a
\* booking with that id.
C28_Witness ==
    /\ ed.op = "remove" /\ ed.fresh /\ ed.b.oid # 0
    /\ ed.held = Rooms

-----------------------------------------------------------------------------
(* RecentBookings on its own: mark_*, is_* and get_* of the three tables    *)

MaxMarks == 3

\* self._canceled / self._created / self._updated
TableOf(kind) ==
    CASE kind = "canceled" -> recCanceled
      [] kind = "created" -> recCreated
      [] kind = "updated" -> recUpdated

\* What mark_* stores with the id: nothing for canceled, the booking otherwise.
MarkedBooking(kind, id) ==
    CASE kind = "canceled" -> NoBooking
      [] kind = "created" -> CreatedBooking(id)
      [] kind = "updated" -> UpdatedBooking(id)

\* The number of (kind, id) pairs marked so far.
MarksMade == Cardinality({<<k, id>> \in Kinds \X Ids : lastMark[k][id] >= 0})

RecentFrame ==
    UNCHANGED <<sfVars, cacheVars, monoVars, readVars, rd, createdAt, cancelAsked,
                mg, rq, gwLog, op, item, editVars, pol, ur>>

\* Mutant: pruning keeps the canceled and created tables and empties the
\* updated one.
PruneAll_DropsUpdated ==
    /\ recCanceled' = Prune(recCanceled, Now)
    /\ recCreated' = Prune(recCreated, Now)
    /\ recUpdated' = <<>>

\* self._prune(now), which every method runs first
PruneAll ==
    /\ recCanceled' = Prune(recCanceled, Now)
    /\ recCreated' = Prune(recCreated, Now)
    /\ recUpdated' = Prune(recUpdated, Now)

\* mark_canceled(id) / mark_created(id, booking) / mark_updated(id, booking)
RecentMark(kind, id) ==
    /\ lastMark[kind][id] >= 0 \/ MarksMade < MaxMarks
    /\ recCanceled' = IF kind = "canceled" THEN Mark(recCanceled, id, NoBooking, Now)
                      ELSE Prune(recCanceled, Now)
    /\ recCreated' = IF kind = "created" THEN Mark(recCreated, id, CreatedBooking(id), Now)
                     ELSE Prune(recCreated, Now)
    /\ recUpdated' = IF kind = "updated" THEN Mark(recUpdated, id, UpdatedBooking(id), Now)
                     ELSE Prune(recUpdated, Now)
    /\ lastMark' = [lastMark EXCEPT ![kind][id] = Now]
    /\ rres' = NoQuery
    /\ UNCHANGED clock
    /\ RecentFrame

\* is_canceled(id) / is_created(id) / is_updated(id)
RecentIs(kind, id) ==
    /\ PruneAll
    /\ rres' = [op |-> "is", kind |-> kind, id |-> id, now |-> Now,
                val |-> IsMarked(TableOf(kind), id, Now), ids |-> {}]
    /\ UNCHANGED <<lastMark, clock>>
    /\ RecentFrame

\* get_canceled() / get_created() / get_updated_with_ts(): the keys returned
RecentGet(kind) ==
    /\ PruneAll
    /\ rres' = [op |-> "get", kind |-> kind, id |-> 0, now |-> Now, val |-> FALSE,
                ids |-> IdsOf(Prune(TableOf(kind), Now))]
    /\ UNCHANGED <<lastMark, clock>>
    /\ RecentFrame

RecentInit ==
    /\ SFInitVars /\ clock = 0 /\ CacheInitVars /\ MonoIdle /\ ReadIdle /\ OverlayIdle
    /\ ServiceIdle

RecentNext ==
    \/ \E kind \in Kinds, id \in Ids : RecentMark(kind, id)
    \/ \E kind \in Kinds, id \in Ids : RecentIs(kind, id)
    \/ \E kind \in Kinds : RecentGet(kind)
    \/ Tick

SpecRecent == RecentInit /\ [][RecentNext]_vars

\* The latest mark of the kind for the id is younger than the TTL at time now.
MarkedWithinTtl(kind, id, now) ==
    lastMark[kind][id] >= 0 /\ now - lastMark[kind][id] < RecentTtlSec

\* C29: RecentOverlay TTL: for each kind, is_kind(id, now) is true and
\* get_kind(now) contains id if and only if the latest mark of that kind for
\* id happened at a time ts with now - ts < ttl; at now = ts + ttl the entry
\* is no longer reported.
C29_RecentTtl ==
    /\ rres.op = "is" => (rres.val <=> MarkedWithinTtl(rres.kind, rres.id, rres.now))
    /\ rres.op = "get" =>
           \A id \in Ids : id \in rres.ids <=> MarkedWithinTtl(rres.kind, id, rres.now)

\* get_kind at now = ts + ttl of one id, marked once more in between for the
\* other: the first is not reported, the second is.
C29_Witness ==
    /\ rres.op = "get"
    /\ lastMark[rres.kind][1] >= 0 /\ rres.now = lastMark[rres.kind][1] + RecentTtlSec
    /\ 1 \notin rres.ids /\ 2 \in rres.ids

\* The entry of the id in a table, as a set: empty when the id is not a key.
EntriesOf(tbl, id) == {tbl[i] : i \in {j \in 1..Len(tbl) : tbl[j].id = id}}

\* The table of the kind after the step.
TableAfter(kind) ==
    CASE kind = "canceled" -> recCanceled'
      [] kind = "created" -> recCreated'
      [] kind = "updated" -> recUpdated'

\* C36: RecentOverlay tables are independent: in one call (the clock stands
\* still) a mark_kind(id) stores (now, booking) for the id in its own table;
\* every other entry, of any id in any table, is after the call what pruning
\* the expired entries leaves of it, and is_* and get_* store nothing.
C36_TablesIndependent ==
    [][clock' = clock =>
          \E mk \in (Kinds \X Ids) \cup {<<"none", 0>>} :
              /\ rres'.op \in {"is", "get"} => mk[1] = "none"
              /\ mk[1] # "none" =>
                     EntriesOf(TableAfter(mk[1]), mk[2]) =
                         {[id |-> mk[2], ts |-> Now, b |-> MarkedBooking(mk[1], mk[2])]}
              /\ \A k \in Kinds, id \in Ids :
                     <<k, id>> # mk =>
                         EntriesOf(TableAfter(k), id) =
                             {e \in EntriesOf(TableOf(k), id) : Now - e.ts < RecentTtlSec}]_vars

\* C36 witness: id 1 was marked canceled at 0 and created and updated at 1,
\* and a get_* at 1 has run: the three tables hold the id with their own
\* stamps.
C36_Witness ==
    /\ rres.op = "get" /\ rres.now = 1
    /\ EntriesOf(recCanceled, 1) = {[id |-> 1, ts |-> 0, b |-> NoBooking]}
    /\ EntriesOf(recCreated, 1) = {[id |-> 1, ts |-> 1, b |-> CreatedBooking(1)]}
    /\ EntriesOf(recUpdated, 1) = {[id |-> 1, ts |-> 1, b |-> UpdatedBooking(1)]}

-----------------------------------------------------------------------------
(* The booking rules: can_book after its validation, and _check_rules        *)

\* Room.access_level: Literal["yellow", "red", "special"] | None
AccessLevels == {"yellow", "red", "special", "None"}

Allow == [allow |-> TRUE, reason |-> ""]
Deny(reason) == [allow |-> FALSE, reason |-> reason]

\* can_book, lines 35-39: staff wins over student.
HighestRole(isStudent, isStaff) ==
    IF isStaff THEN "staff" ELSE IF isStudent THEN "student" ELSE "none"

\* Mutant: a staff member is answered before the 309A rule is looked at.
CheckRules_StaffFirst(level, restrictDaytime, is309A, longer, role, inList, restricted) ==
    IF role = "staff" /\ level \in {"yellow", "red"} THEN Allow
    ELSE IF role = "none" THEN Deny("You must be a student or staff to book rooms (college students can't book rooms).")
    ELSE IF is309A /\ inList /\ longer THEN Deny("309A can't be booked for more than 3 hours.")
    ELSE IF inList THEN Allow
    ELSE Deny("You don't have rights to book this room.")

\* _check_rules
CheckRules(level, restrictDaytime, is309A, longer, role, inList, restricted) ==
    IF role = "none"
    THEN Deny("You must be a student or staff to book rooms (college students can't book rooms).")
    ELSE IF is309A /\ inList /\ longer
    THEN Deny("309A can't be booked for more than 3 hours.")
    ELSE IF role = "staff" /\ level \in {"yellow", "red"} THEN Allow
    ELSE IF role = "staff" /\ inList THEN Allow
    ELSE IF role = "staff" THEN Deny("You don't have rights to book this room.")
    ELSE IF role = "student" /\ longer /\ inList THEN Allow
    ELSE IF role = "student" /\ longer /\ level = "yellow"
    THEN Deny("Students can't create booking for more than 3 hours.")
    ELSE IF inList THEN Allow
    ELSE IF role = "student" /\ level = "red"
    THEN Deny("Students can't book rooms with red access level.")
    ELSE IF level = "yellow" /\ ~restrictDaytime THEN Allow
    ELSE IF level = "yellow" /\ restrictDaytime
    THEN IF restricted
         THEN Deny("Students can't book lecture rooms during working hours.")
         ELSE Allow
    ELSE Deny("You don't have rights to book this room..")

PolicyFrame ==
    UNCHANGED <<sfVars, clock, cacheVars, monoVars, readVars, overlayVars, mg, rq, gwLog,
                op, item, editVars, recentVars, ur>>

\* can_book has validated the times and computed the arguments of _check_rules.
PolicyInit ==
    /\ SFInitVars /\ clock = 0 /\ CacheInitVars /\ MonoIdle /\ ReadIdle /\ OverlayIdle
    /\ MergeIdle /\ RouteIdle /\ MutationIdle /\ EditIdle /\ RecentIdle
    /\ UserReadIdle
    /\ \E isStudent, isStaff, restrictDaytime, is309A, longer, inList, restricted \in BOOLEAN,
          level \in AccessLevels :
           pol = [st |-> "asked", isStudent |-> isStudent, isStaff |-> isStaff,
                  level |-> level, restrictDaytime |-> restrictDaytime,
                  is309A |-> is309A, longer |-> longer, inList |-> inList,
                  restricted |-> restricted, role |-> "none", out |-> Deny("")]

\* can_book, lines 35-47: the highest role is computed and _check_rules answers.
CanBookRules ==
    /\ pol.st = "asked"
    /\ LET role == HighestRole(pol.isStudent, pol.isStaff)
       IN  pol' = [pol EXCEPT !.st = "done", !.role = role,
                              !.out = CheckRules(pol.level, pol.restrictDaytime,
                                                 pol.is309A, pol.longer, role,
                                                 pol.inList, pol.restricted)]
    /\ PolicyFrame

PolicyNext == CanBookRules

SpecRules == PolicyInit /\ [][PolicyNext]_vars

\* The ordered rule list of the permission rules, first matching rule wins:
\* TRUE for allow.
RuleListAllows(level, restrictDaytime, is309A, longer, role, inList, restricted) ==
    CASE role \notin {"student", "staff"} -> FALSE
      [] OTHER ->
    CASE is309A /\ inList /\ longer -> FALSE
      [] OTHER ->
    CASE role = "staff" /\ level \in {"yellow", "red"} -> TRUE
      [] OTHER ->
    CASE role = "staff" /\ inList -> TRUE
      [] OTHER ->
    CASE role = "staff" -> FALSE
      [] OTHER ->
    CASE role = "student" /\ longer /\ level = "yellow" /\ ~inList -> FALSE
      [] OTHER ->
    CASE inList -> TRUE
      [] OTHER ->
    CASE role = "student" /\ level = "red" -> FALSE
      [] OTHER ->
    CASE level = "yellow" /\ ~restrictDaytime -> TRUE
      [] OTHER ->
    CASE level = "yellow" /\ restrictDaytime -> ~restricted
      [] OTHER -> FALSE

\* C30: for every combination of highest role (staff wins over student), room
\* access_level, restrict_daytime, room id 309A or not, in_access_list,
\* duration > 3h and restricted-time flag, _check_rules decides as the ordered
\* rule list does with the first matching rule winning; the reason is empty
\* exactly when the answer is allow.
C30_RulesMatchList ==
    pol.st = "done" =>
        /\ pol.role = (IF pol.isStaff THEN "staff"
                       ELSE IF pol.isStudent THEN "student" ELSE "none")
        /\ pol.out.allow = RuleListAllows(pol.level, pol.restrictDaytime, pol.is309A,
                                          pol.longer, pol.role, pol.inList,
                                          pol.restricted)
        /\ pol.out.allow <=> pol.out.reason = ""

\* A user who is both student and staff, on the access list of the yellow
\* room 309A, is refused a booking of more than three hours.
C30_Witness ==
    /\ pol.st = "done" /\ pol.isStudent /\ pol.isStaff /\ pol.level = "yellow"
    /\ pol.is309A /\ pol.inList /\ pol.longer
    /\ ~pol.out.allow

-----------------------------------------------------------------------------
(* can_book as a whole: validation of the times, then the rules, as the     *)
(* routes call it. Times are whole hours; hour 0 is Monday 00:00 UTC.       *)

MskOffsetHours == 3
HoursPerDay == 24
TwoWeeksHours == 336
ThreeHours == 3

\* An aware datetime: the instant (hours UTC) and the offset of its timezone.
Dt(utc, off) == [utc |-> utc, off |-> off]

\* to_msk: the same instant on the Moscow clock.
ToMsk(dt) == Dt(dt.utc, MskOffsetHours)

\* The wall clock of a datetime, and its date(), time() and date().weekday()
\* (Monday is 0).
Wall(dt) == dt.utc + dt.off
DateOf(dt) == Wall(dt) \div HoursPerDay
TimeOf(dt) == Wall(dt) % HoursPerDay
WeekdayOf(dt) == DateOf(dt) % 7

RestrictedTimeStart == 8
RestrictedTimeEnd == 19

\* Mutant: a booking that ends exactly at 08:00 or starts exactly at 19:00
\* counts as restricted.
IsRestrictedTime_Closed(start, end) ==
    LET s == ToMsk(start)
        e == ToMsk(end)
    IN  /\ DateOf(s) = DateOf(e) /\ WeekdayOf(s) <= 4
        /\ ~(TimeOf(s) <= TimeOf(e) /\ TimeOf(e) < RestrictedTimeStart)
        /\ ~(RestrictedTimeEnd < TimeOf(s) /\ TimeOf(s) <= TimeOf(e))

\* _is_restricted_time
IsRestrictedTime(start, end) ==
    LET s == ToMsk(start)
        e == ToMsk(end)
        started_on_weekday == 0 <= WeekdayOf(s) /\ WeekdayOf(s) <= 4
        ended_on_weekday == 0 <= WeekdayOf(e) /\ WeekdayOf(e) <= 4
    IN  IF DateOf(s) = DateOf(e)
        THEN IF started_on_weekday
             THEN IF TimeOf(s) <= TimeOf(e) /\ TimeOf(e) <= RestrictedTimeStart THEN FALSE
                  ELSE IF RestrictedTimeEnd <= TimeOf(s) /\ TimeOf(s) <= TimeOf(e) THEN FALSE
                  ELSE TRUE
             ELSE FALSE
        ELSE IF /\ (~started_on_weekday \/ RestrictedTimeEnd <= TimeOf(s))
                /\ (~ended_on_weekday \/ TimeOf(e) <= RestrictedTimeStart)
             THEN FALSE
             ELSE TRUE

StartBeforeEnd == "Start must be before end."
InThePast == "Booking cannot be in the past."
TooFarAhead == "Booking cannot be more than two weeks in the future."

Abs(x) == IF x < 0 THEN 0 - x ELSE x

\* Mutant: the two-week test comes before the test for the past.
CanBook_FarBeforePast(start, end, now, isUpdate, isStudent, isStaff, level, restrictDaytime, is309A, inList) ==
    IF start.utc >= end.utc THEN Deny(StartBeforeEnd)
    ELSE IF Abs(start.utc - now.utc) > TwoWeeksHours THEN Deny(TooFarAhead)
    ELSE IF (start.utc < now.utc /\ ~isUpdate) \/ end.utc < now.utc THEN Deny(InThePast)
    ELSE CheckRules(level, restrictDaytime, is309A, end.utc - start.utc > ThreeHours,
                    HighestRole(isStudent, isStaff), inList, IsRestrictedTime(start, end))

\* can_book (aware datetimes compare by instant)
CanBook(start, end, now, isUpdate, isStudent, isStaff, level, restrictDaytime, is309A, inList) ==
    LET s == ToMsk(start)
        e == ToMsk(end)
        current == ToMsk(now)
    IN  IF s.utc >= e.utc THEN Deny(StartBeforeEnd)
        ELSE IF (s.utc < current.utc /\ ~isUpdate) \/ e.utc < current.utc
        THEN Deny(InThePast)
        ELSE IF Abs(s.utc - current.utc) > TwoWeeksHours THEN Deny(TooFarAhead)
        ELSE CheckRules(level, restrictDaytime, is309A, e.utc - s.utc > ThreeHours,
                        HighestRole(isStudent, isStaff), inList,
                        IsRestrictedTime(s, e))

\* Who calls can_book and the is_update it passes: the two routes pass none
\* (the default, False); a direct call may pass True.
CanBookCalls == {<<"create", FALSE>>, <<"update", FALSE>>, <<"direct", TRUE>>}

\* The inputs: now is Monday 02:00 UTC; starts over eight days, around two
\* weeks ahead and more than two weeks ago; ends from one hour before the
\* start to four hours after it.
NowUtc == Dt(2, 0)
StartHours == (0..195) \cup {337, 338, 339, 0 - 340}
Durations == (0 - 1)..4
RequestOffsets == {0, MskOffsetHours}

CanBookInit ==
    /\ SFInitVars /\ clock = 0 /\ CacheInitVars /\ MonoIdle /\ ReadIdle /\ OverlayIdle
    /\ MergeIdle /\ RouteIdle /\ MutationIdle /\ EditIdle /\ RecentIdle
    /\ UserReadIdle
    /\ \E call \in CanBookCalls, sh \in StartHours, d \in Durations,
          off \in RequestOffsets, isStudent, isStaff, restrictDaytime, inList \in BOOLEAN,
          level \in {"yellow", "red"} :
           pol = [st |-> "asked", caller |-> call[1], isUpdate |-> call[2],
                  start |-> Dt(sh, off), end |-> Dt(sh + d, off), now |-> NowUtc,
                  isStudent |-> isStudent, isStaff |-> isStaff, level |-> level,
                  restrictDaytime |-> restrictDaytime, is309A |-> FALSE,
                  inList |-> inList, out |-> Deny("")]

\* can_book(user=..., room=..., start=..., end=...[, is_update=...])
CanBookCall ==
    /\ pol.st = "asked"
    /\ pol' = [pol EXCEPT !.st = "done",
                          !.out = CanBook(pol.start, pol.end, pol.now, pol.isUpdate,
                                          pol.isStudent, pol.isStaff, pol.level,
                                          pol.restrictDaytime, pol.is309A, pol.inList)]
    /\ PolicyFrame

CanBookNext == CanBookCall

SpecCanBook == CanBookInit /\ [][CanBookNext]_vars

\* C31: can_book checks start >= end, then booking in the past (end < now, or
\* start < now when is_update is false), then |start - now| > 14 days, and
\* only then the permission rules; the reason is that of the first failing
\* check.
C31_ValidationOrder ==
    pol.st = "done" =>
        LET s == pol.start.utc
            e == pol.end.utc
            n == pol.now.utc
            badOrder == s >= e
            past == e < n \/ (s < n /\ ~pol.isUpdate)
            far == Abs(s - n) > TwoWeeksHours
        IN  /\ badOrder => pol.out = Deny(StartBeforeEnd)
            /\ (~badOrder /\ past) => pol.out = Deny(InThePast)
            /\ (~badOrder /\ ~past /\ far) => pol.out = Deny(TooFarAhead)
            /\ (~badOrder /\ ~past /\ ~far) =>
                   /\ pol.out.reason \notin {StartBeforeEnd, InThePast, TooFarAhead}
                   /\ pol.out = CheckRules(pol.level, pol.restrictDaytime, pol.is309A,
                                           e - s > ThreeHours,
                                           HighestRole(pol.isStudent, pol.isStaff),
                                           pol.inList,
                                           IsRestrictedTime(pol.start, pol.end))

\* A booking that started more than two weeks ago, asked by a user without a
\* role: it fails the test for the past, the two-week test and the rules, and
\* gets the message of the past.
C31_Witness ==
    /\ pol.st = "done" /\ pol.start.utc < pol.end.utc
    /\ pol.now.utc - pol.start.utc > TwoWeeksHours
    /\ ~pol.isStudent /\ ~pol.isStaff
    /\ pol.out = Deny(InThePast)

\* The hour that begins at h on the Moscow clock lies inside Monday-Friday
\* 08:00-19:00.
HourInWindow(h) ==
    /\ (h \div HoursPerDay) % 7 <= 4
    /\ RestrictedTimeStart <= h % HoursPerDay /\ h % HoursPerDay < RestrictedTimeEnd

\* A student outside the access list asked for a yellow room with
\* restrict_daytime, for at most three hours, and the times passed validation.
DaytimeCase ==
    /\ pol.st = "done"
    /\ pol.isStudent /\ ~pol.isStaff /\ ~pol.inList
    /\ pol.level = "yellow" /\ pol.restrictDaytime
    /\ pol.start.utc < pol.end.utc /\ pol.end.utc - pol.start.utc <= ThreeHours
    /\ pol.out.reason \notin {StartBeforeEnd, InThePast, TooFarAhead}

\* C32: in that case can_book allows the booking if and only if the interval
\* lies entirely outside Monday-Friday 08:00-19:00 MSK; an interval wholly on
\* Saturday or Sunday is allowed, and an interval crossing midnight is denied
\* iff its start or its end lies inside the window of a weekday.
C32_RestrictedDaytime ==
    DaytimeCase =>
        LET s == pol.start.utc + MskOffsetHours
            e == pol.end.utc + MskOffsetHours
            first == s \div HoursPerDay
            last == (e - 1) \div HoursPerDay
        IN  /\ pol.out.allow <=> \A h \in s..(e - 1) : ~HourInWindow(h)
            /\ (first % 7 >= 5 /\ last % 7 >= 5) => pol.out.allow
            /\ first # last => (~pol.out.allow <=> (HourInWindow(s) \/ HourInWindow(e - 1)))

\* A booking on Saturday from 10:00 MSK is allowed, in the middle of the day.
C32_Witness ==
    /\ DaytimeCase
    /\ ((pol.start.utc + MskOffsetHours) \div HoursPerDay) % 7 = 5
    /\ (pol.start.utc + MskOffsetHours) % HoursPerDay = 10
    /\ pol.out.allow

\* C37: an update request for a booking that has started and not yet ended
\* (start < now <= end) is not rejected with "Booking cannot be in the past."
C37_RunningBookingCanBeUpdated ==
    (/\ pol.st = "done" /\ pol.caller = "update"
     /\ pol.start.utc < pol.now.utc /\ pol.now.utc <= pol.end.utc)
        => pol.out.reason # InThePast

-----------------------------------------------------------------------------
(* The single-user read: fetch_user_bookings over the account calendar       *)

\* Room.access_level of the two rooms of the registry.
RoomAccessLevel(r) == IF r = "r2" THEN "red" ELSE "yellow"

\* RoomsRepository.get_all
GetAll(include_red) ==
    {r \in Rooms : RoomAccessLevel(r) # "red" \/ include_red}

\* include_red as fetch_user_bookings passes it (line 308).
UserReadIncludeRed == TRUE

\* The item ids the user attends without having declined.
AttendedSets == {{}, {1}, {1, 3}, {2, 3, 4}}

RECURSIVE Flatten(_, _)
\* The lists of a mapping one after the other.
Flatten(mapping, todo) ==
    IF todo = {} THEN <<>>
    ELSE LET r == CHOOSE x \in todo : TRUE
         IN  mapping[r] \o Flatten(mapping, todo \ {r})

UserReadFrame ==
    UNCHANGED <<sfVars, monoVars, readVars, overlayVars, mg, rq, gwLog, op, item,
                editVars, recentVars, pol>>

\* fetch_user_bookings up to the gateway call: use_cache is False, so the
\* cache is not read.
UserReadCall(w, mine) ==
    /\ ur.st \in {"idle", "done"}
    /\ nputs < MaxPuts
    /\ ur' = [st |-> "called", rooms |-> GetAll(UserReadIncludeRed), w |-> w,
              mine |-> mine, out |-> <<>>]
    /\ UNCHANGED <<clock, cacheVars>>
    /\ UserReadFrame

\* The calendar view answered v: the items are converted, the mapping is
\* written to the account-calendar cache, the user's bookings are returned,
\* latest start first.
UserReadReturn(v) ==
    /\ ur.st = "called"
    /\ LET mapping == Convert("ac", v, ur.rooms)
       IN  /\ cache' = UpdateFromMapping(cache, ur.rooms, mapping, ur.w[1], ur.w[2], Now)
           /\ lastPut' = [r \in Rooms |->
                             IF r \in ur.rooms
                             THEN [start |-> ur.w[1], end |-> ur.w[2], now |-> Now,
                                   bookings |-> mapping[r]]
                             ELSE lastPut[r]]
           /\ ur' = [ur EXCEPT !.st = "done",
                               !.out = SortByStartDesc(
                                           SelectSeq(Flatten(mapping, ur.rooms),
                                                     LAMBDA b : b.oid \in ur.mine))]
    /\ nputs' = nputs + 1
    /\ cres' = [NoRes EXCEPT !.op = "put", !.rooms = ur.rooms]
    /\ UNCHANGED clock
    /\ UserReadFrame

\* The calendar view failed: the error leaves fetch_user_bookings.
UserReadFail ==
    /\ ur.st = "called"
    /\ ur' = [ur EXCEPT !.st = "raised"]
    /\ UNCHANGED <<clock, cacheVars>>
    /\ UserReadFrame

UserReadInit ==
    /\ SFInitVars /\ clock = 0 /\ CacheInitVars /\ MonoIdle /\ ReadIdle /\ OverlayIdle
    /\ ServiceIdle

UserReadNext ==
    \/ \E w \in Windows, mine \in AttendedSets : UserReadCall(w, mine)
    \/ \E v \in Vals : UserReadReturn(v)
    \/ UserReadFail
    \/ Tick

SpecUserRead == UserReadInit /\ [][UserReadNext]_vars

\* C33: the single-user read covers only rooms whose access_level is not
\* red: it never returns a booking of a red room and never writes a slot for
\* a red room into the calendar-view cache.
C33_UserReadSkipsRedRooms ==
    /\ ur.st = "done" =>
           \A i \in 1..Len(ur.out) : RoomAccessLevel(ur.out[i].room_id) # "red"
    /\ \A r \in Rooms : RoomAccessLevel(r) = "red" => cache[r] = <<>>

-----------------------------------------------------------------------------
(* The room read with its window: cache lookup, fetch, merge and overlay     *)

\* How many reads of one behaviour miss the cache and fetch.
MaxWindowFetches == 1

WindowReadFrame == UNCHANGED <<sfVars, monoVars, readVars, serviceVars>>

\* The gateway's premise: of the items of a calendar, a query for a window
\* returns those that overlap it.
InWindow(bs, w) == SelectSeq(bs, LAMBDA b : b.start < w[2] /\ b.end > w[1])

\* The bookings by room, as the converted items are grouped for the rooms
\* asked for.
ByRoom(bs, rooms) == [r \in rooms |-> SelectSeq(bs, LAMBDA b : b.room_id = r)]

\* What _fetch_bookings_from_account_calendar returns to the read in
\* progress: the bookings of the covering slots on a full hit, else those of
\* the calendar ver that overlap the window.
WindowAccountCalendar(ver) ==
    IF rd.st # "fetching" THEN <<>>
    ELSE IF rd.hit THEN rd.cached
    ELSE InWindow(AccountCalendarFetch(ver, DOMAIN ver), rd.win)

\* What _fetch_bookings_from_busy_info returns to the read in progress,
\* taken from the gateway.
WindowBusyInfo(busy) ==
    IF rd.st # "fetching" THEN <<>>
    ELSE InWindow(BusyInfoFetch(busy, rd.rooms), rd.win)

\* _fetch_bookings_both_from_account_calendar_and_busy_info up to the gather:
\* t_start is taken and the account-calendar cache is asked for the rooms
\* and the window.
WindowReadStart(rooms, w) ==
    /\ rd.st = "idle"
    /\ LET g == GetCachedBookings(cache, rooms, w[1], w[2], Now, {}, {})
       IN  /\ g.misses # {} => nputs < MaxWindowFetches
           /\ cache' = g.cache
           /\ rd' = [st |-> "fetching", rooms |-> rooms, win |-> w, tStart |-> Now,
                     hit |-> g.misses = {},
                     cached |-> IF g.misses = {}
                                THEN Flatten(HitsToMapping(rooms, g.hits), rooms)
                                ELSE <<>>,
                     result |-> <<>>]
    /\ UNCHANGED <<cres, lastPut, nputs, clock, recCanceled, recCreated, recUpdated,
                   createdAt, cancelAsked>>
    /\ WindowReadFrame

\* The gather returned: on a miss the fetched bookings are written to the
\* cache for the window; the two sources are merged, the overlay applied,
\* the result sorted and returned.
WindowReadFinish(ver, busy, order) ==
    /\ rd.st = "fetching"
    /\ LET ac == WindowAccountCalendar(ver)
           bi == WindowBusyInfo(busy)
       IN  /\ cache' = IF rd.hit THEN cache
                       ELSE UpdateFromMapping(cache, rd.rooms, ByRoom(ac, rd.rooms),
                                              rd.win[1], rd.win[2], Now)
           /\ lastPut' = [r \in Rooms |->
                             IF ~rd.hit /\ r \in rd.rooms
                             THEN [start |-> rd.win[1], end |-> rd.win[2], now |-> Now,
                                   bookings |-> ByRoom(ac, rd.rooms)[r]]
                             ELSE lastPut[r]]
           /\ nputs' = IF rd.hit THEN nputs ELSE nputs + 1
           /\ rd' = [rd EXCEPT
                        !.st = "done",
                        !.result = SortByStartDesc(
                            ApplyOverlay(MergeSources(ac, bi, order, 1),
                                         Prune(recCreated, Now), Prune(recUpdated, Now),
                                         Prune(recCanceled, Now), rd.tStart, rd.rooms))]
    /\ recCreated' = Prune(recCreated, Now)
    /\ recCanceled' = Prune(recCanceled, Now)
    /\ recUpdated' = Prune(recUpdated, Now)
    /\ UNCHANGED <<cres, createdAt, cancelAsked, clock>>
    /\ WindowReadFrame

WindowReadInit ==
    /\ SFInitVars /\ clock = 0 /\ CacheInitVars /\ MonoIdle /\ ReadIdle
    /\ OverlayIdle
    /\ ServiceIdle

WindowReadNext ==
    \/ \E id \in Ids : CreateReturn(id)
    \/ \E rooms \in RoomSets, w \in Windows : WindowReadStart(rooms, w)
    \/ \E ver \in [{id \in Ids : RoomOf(id) \in rd.rooms} -> {"no", "old", "new"}],
          busy \in BOOLEAN :
           \E order \in Orders(KeysIn(WindowAccountCalendar(ver))
                                   \cup KeysIn(WindowBusyInfo(busy))) :
               WindowReadFinish(ver, busy, order)
    \/ ReadReturn
    \/ OverlayTick

SpecWindowRead == WindowReadInit /\ [][WindowReadNext]_vars

\* C38: every booking a room read for rooms R and window [s, e] returns has
\* room_id in R and overlaps the window (start < e and end > s), the gateway
\* returning for a queried window only items that overlap it.
C38_ReadWithinRoomsAndWindow ==
    rd.st = "done" =>
        \A i \in 1..Len(rd.result) :
            /\ rd.result[i].room_id \in rd.rooms
            /\ rd.result[i].start < rd.win[2]
            /\ rd.result[i].end > rd.win[1]

====
